---- MODULE Spec2Model ----
(***************************************************************************)
(* Real-time dispatch engine of navigateher: the in-memory driver pool and *)
(* presence map of src/realtime/socketHandler.js, the Firestore ride       *)
(* documents written by the driver_accepted / driver_rejected socket       *)
(* handlers and by requestRide (src/api/rides/rides.controller.js), and    *)
(* the 30 s offer timers started by sendRideRequestToDriver.               *)
(* The community-connect handlers of the same file (riders looking for a   *)
(* match, invites, accepts, rejects) are synchronous: one action each.     *)
(*                                                                         *)
(* Every async handler is split at its awaits: the synchronous prefix is   *)
(* one action, and each continuation after an awaited store call is one    *)
(* action (success) or the catch block (failure).  Handlers in flight are  *)
(* kept in a bag of tasks, so handlers of different events interleave at the*)
(* awaits exactly as they do on the Node.js event loop.                    *)
(***************************************************************************)
EXTENDS Integers, Sequences, FiniteSets, Bags, TLC

\* ------------------------------------------------------------------ bounds
NDrivers == 3      \* driver uids 1..NDrivers
NRiders == 3       \* rider uids NDrivers+1..NDrivers+NRiders
RideRiders == 1    \* riders that request rides
ReconnectRiders == 2 \* riders that connect on several sockets
MaxRides == 2      \* ride documents the store may hold
SpecDrivers == 2   \* drivers that come online under overlapping handlers
SpecRides == 1     \* rides requested under overlapping handlers
MaxTasks == 2      \* handlers in flight (suspended at an await)
MaxTimers == 2     \* offer timers not yet fired
MaxLoc == 3        \* locations 0..MaxLoc on a line
KmPerUnit == 4     \* kilometres between neighbouring locations
MaxTime == 2       \* Date.now() returns 1..MaxTime

\* ------------------------------------------------------- program constants
NoUid == 0         \* null uid / null driverId
NoSocket == 0      \* no socket id (userSocketMap[userId] undefined)
NoRideId == 0      \* no ride id
RadiusKm == 10     \* search radius passed to findNearbyDrivers

Drivers == 1..NDrivers
Riders == (NDrivers + 1)..(NDrivers + NRiders)
Users == Drivers \cup Riders
Sockets == 1..(NDrivers + NRiders)
RideIds == 1..MaxRides
Locs == 0..MaxLoc
PickupLocs == {0}
Times == 1..MaxTime

\* The uid a socket's client announces: one connection per user, and a
\* client announces its own uid.
Owner(s) == s

\* Where a driver's client reports it is: driver 1 at the pickup, driver 2 one
\* step away, and so on along the line (the last location is out of range).
HomeLoc(uid) == (uid - 1) % (MaxLoc + 1)

VARIABLES
  sockets,        \* per connection: open, socket.userId, socket.driverUID,
                  \* socket.riderUID
  userSocketMap,  \* userId -> socket id (NoSocket when absent)
  onlineDrivers,  \* the driver pool, in key insertion order
  lookingRiders,  \* the pool of riders looking for a match, in key insertion
                  \* order
  rides,          \* Firestore collection "rides": ride id -> document
  timers,         \* pending setTimeout callbacks, oldest first; each with the
                  \* offer it was started for and whether the driver answered it
  tasks,          \* handlers suspended at an await
  emitted,        \* events emitted (and HTTP replies sent) by the last step
  offered         \* per driver: the ride ids its client has received in a
                  \* new_ride_request

vars == <<sockets, userSocketMap, onlineDrivers, lookingRiders, rides, timers,
          tasks, emitted, offered>>

\* ------------------------------------------------------------ driver pool
Abs(n) == IF n < 0 THEN -n ELSE n

\* haversine(a, b, {unit: "km"}) on the model's line of locations
Distance(a, b) == KmPerUnit * Abs(a - b)

DriverEntry(uid, sid, loc, st) ==
  [uid |-> uid, socketId |-> sid, location |-> loc, status |-> st]

HasDriver(pool, uid) == \E i \in 1..Len(pool) : pool[i].uid = uid

IndexOf(pool, uid) == CHOOSE i \in 1..Len(pool) : pool[i].uid = uid

GetDriver(pool, uid) == pool[IndexOf(pool, uid)]

\* a faulty store that always adds an entry
PutDriver_Append(pool, e) == Append(pool, e)

\* onlineDrivers[uid] = entry: an existing key keeps its place, a new key is
\* appended (JS object key order)
PutDriver(pool, e) ==
  IF HasDriver(pool, e.uid)
    THEN [pool EXCEPT ![IndexOf(pool, e.uid)] = e]
    ELSE Append(pool, e)

\* a faulty delete that leaves the pool as it is
RemoveDriver_Keep(pool, uid) == pool

\* delete onlineDrivers[uid]
RemoveDriver(pool, uid) == SelectSeq(pool, LAMBDA e : e.uid # uid)

\* if (onlineDrivers[uid]) onlineDrivers[uid].status = st
SetStatusIfPresent(pool, uid, st) ==
  IF HasDriver(pool, uid)
    THEN [pool EXCEPT ![IndexOf(pool, uid)].status = st]
    ELSE pool

SetLocation(pool, uid, loc) ==
  IF HasDriver(pool, uid)
    THEN [pool EXCEPT ![IndexOf(pool, uid)].location = loc]
    ELSE pool

StatusOf(pool, uid) ==
  IF HasDriver(pool, uid) THEN GetDriver(pool, uid).status ELSE "absent"

\* Array.prototype.sort with (a, b) => a.distance - b.distance is stable:
\* insert each element behind every element that is not farther
RECURSIVE InsertByDistance(_, _, _)
InsertByDistance(e, sorted, origin) ==
  IF sorted = <<>> THEN <<e>>
  ELSE IF Distance(origin, e.location) < Distance(origin, Head(sorted).location)
    THEN <<e>> \o sorted
    ELSE <<Head(sorted)>> \o InsertByDistance(e, Tail(sorted), origin)

\* a faulty sort that leaves the list in pool order
SortByDistance_None(s, origin) == s

RECURSIVE SortByDistance(_, _)
SortByDistance(s, origin) ==
  IF s = <<>> THEN <<>>
  ELSE InsertByDistance(s[Len(s)], SortByDistance(SubSeq(s, 1, Len(s) - 1), origin), origin)

\* a faulty filter that does not look at the driver's status
Eligible_AnyStatus(e, riderLocation, radiusInKm, excludedDriverId) ==
  /\ e.uid # excludedDriverId
  /\ Distance(riderLocation, e.location) <= radiusInKm

Eligible(e, riderLocation, radiusInKm, excludedDriverId) ==
  /\ e.uid # excludedDriverId
  /\ e.status = "available"
  /\ Distance(riderLocation, e.location) <= radiusInKm

findNearbyDrivers(pool, riderLocation, radiusInKm, excludedDriverId) ==
  SortByDistance(
    SelectSeq(pool, LAMBDA e : Eligible(e, riderLocation, radiusInKm, excludedDriverId)),
    riderLocation)

\* ------------------------------------------------------ looking-rider pool
\* what a client sends as its rider details (riderADetails, myDetails): the
\* profile of a rider
Profile(uid) == [of |-> uid]
NoDetails == Profile(NoUid)     \* details undefined

\* entry.pendingRequestFrom: {uid, details}, or undefined
Request(fromUid, details) == [uid |-> fromUid, details |-> details]
NoRequest == Request(NoUid, NoDetails)

RiderEntry(uid, sid, loc, dest) ==
  [uid |-> uid, socketId |-> sid, location |-> loc, destination |-> dest,
   pendingRequestFrom |-> NoRequest]

HasRider(pool, uid) == \E i \in 1..Len(pool) : pool[i].uid = uid

GetRider(pool, uid) == pool[CHOOSE i \in 1..Len(pool) : pool[i].uid = uid]

\* lookingRiders[uid] = entry: an existing key keeps its place, a new key goes last
PutRider(pool, e) ==
  IF HasRider(pool, e.uid)
    THEN [i \in 1..Len(pool) |-> IF pool[i].uid = e.uid THEN e ELSE pool[i]]
    ELSE Append(pool, e)

RemoveRider_Keep(pool, uid) == pool

\* delete lookingRiders[uid]
RemoveRider(pool, uid) == SelectSeq(pool, LAMBDA e : e.uid # uid)

SetRequest_KeepFirst(pool, uid, req) ==
  [i \in 1..Len(pool) |->
     IF pool[i].uid = uid /\ pool[i].pendingRequestFrom = NoRequest
       THEN [pool[i] EXCEPT !.pendingRequestFrom = req]
       ELSE pool[i]]

\* riderB.pendingRequestFrom = req, and delete riderB.pendingRequestFrom for
\* req = NoRequest (if (riderB) ...: nothing happens without an entry)
SetRequest(pool, uid, req) ==
  [i \in 1..Len(pool) |->
     IF pool[i].uid = uid THEN [pool[i] EXCEPT !.pendingRequestFrom = req]
     ELSE pool[i]]

\* riderB?.pendingRequestFrom, undefined without an entry
RequestOf(pool, uid) ==
  IF HasRider(pool, uid) THEN GetRider(pool, uid).pendingRequestFrom ELSE NoRequest

\* the riders whose entry holds a pending request from uid
RequestedBy(pool, uid) ==
  {pool[i].uid : i \in {j \in 1..Len(pool) : pool[j].pendingRequestFrom.uid = uid}}

\* the for-in loop of the disconnect handler: every pending request from uid
\* is deleted
ClearRequestsFrom(pool, uid) ==
  [i \in 1..Len(pool) |->
     IF pool[i].pendingRequestFrom.uid = uid
       THEN [pool[i] EXCEPT !.pendingRequestFrom = NoRequest]
       ELSE pool[i]]

\* ------------------------------------------------------------- ride store
NoRide == [status |-> "none", driverId |-> NoUid, riderId |-> NoUid,
           pickup |-> 0, rejectedBy |-> NoUid, acceptedAt |-> "unset"]

Exists(r) == rides[r].status # "none"

\* db.collection("rides").add(rideData): a fresh document id
FreshRideId == CHOOSE r \in RideIds : ~Exists(r) /\ \A q \in RideIds : q < r => Exists(q)

NewRide(riderId, pickup) ==
  [status |-> "pending", driverId |-> NoUid, riderId |-> riderId,
   pickup |-> pickup, rejectedBy |-> NoUid, acceptedAt |-> "unset"]

\* ------------------------------------------------------------------ tasks
\* what a handler reads of rideSnapshot.data(): whether the document exists,
\* its pickup and its riderId
NoData == [defined |-> FALSE, pickup |-> 0, riderId |-> NoUid]
DataOf(doc) ==
  IF doc.status = "none" THEN NoData
  ELSE [defined |-> TRUE, pickup |-> doc.pickup, riderId |-> doc.riderId]

\* a handler suspended at an await: where it resumes and its locals
Task(pc, socket, rideId, driver, rideData, nextDriver, rider, pickup) ==
  [pc |-> pc, socket |-> socket, rideId |-> rideId, driver |-> driver,
   rideData |-> rideData, nextDriver |-> nextDriver, rider |-> rider, pickup |-> pickup]

Running == BagToSet(tasks)
HasFreeSlot == BagCardinality(tasks) < MaxTasks
Start(t) == tasks (+) SetToBag({t})
Finish(t) == tasks (-) SetToBag({t})
Resume(t, u) == (tasks (-) SetToBag({t})) (+) SetToBag({u})

Event(to, name, rideId) == [to |-> to, event |-> name, rideId |-> rideId]

\* `video_${Date.now()}_${acceptedUid}_${myUid}`
RoomId(now, acceptedUid, myUid) ==
  [now |-> now, acceptedUid |-> acceptedUid, myUid |-> myUid]
NoRoom == RoomId(0, NoUid, NoUid)

\* an event of the community-connect protocol: the uid, the rider details, the
\* room id and the reason of its payload (those it does not carry are undefined)
PeerEvent(to, name, uid, details, roomId) ==
  [to |-> to, event |-> name, uid |-> uid, details |-> details, roomId |-> roomId,
   reason |-> "undefined"]

\* a failure event: its payload carries a reason
FailedEvent(to, name, uid, reason) ==
  [PeerEvent(to, name, uid, NoDetails, NoRoom) EXCEPT !.reason = reason]

findSocketIdForUser_None(map, userId) == NoSocket

\* findSocketIdForUser(userId): userSocketMap[userId] || null
findSocketIdForUser(map, userId) ==
  IF userId \in DOMAIN map THEN map[userId] ELSE NoSocket

\* notifyUser(userId, eventName, data), reading the presence map as it is
\* when called: what it emits and what it returns
notifyUser(map, userId, event) ==
  LET socketId == findSocketIdForUser(map, userId) IN
  IF socketId # NoSocket
    THEN [emits |-> {[event EXCEPT !.to = socketId]}, returns |-> TRUE]
    ELSE [emits |-> {}, returns |-> FALSE]

\* notifyUser(userId, eventName, data): emits only when the user has a socket
Notify(userId, name, rideId) ==
  notifyUser(userSocketMap, userId, Event(NoSocket, name, rideId)).emits

Init ==
  /\ sockets = [s \in Sockets |-> [open |-> TRUE, userId |-> NoUid, driverUID |-> NoUid,
                               riderUID |-> NoUid]]
  /\ userSocketMap = [u \in Users |-> NoSocket]
  /\ onlineDrivers = <<>>
  /\ lookingRiders = <<>>
  /\ rides = [r \in RideIds |-> NoRide]
  /\ timers = <<>>
  /\ tasks = EmptyBag
  /\ emitted = {}
  /\ offered = [d \in Drivers |-> {}]

\* --------------------------------------------------- connection handlers
\* socket.on("user_connect")
UserConnect(s, uid) ==
  /\ sockets[s].open
  /\ sockets' = [sockets EXCEPT ![s].userId = uid]
  /\ userSocketMap' = [userSocketMap EXCEPT ![uid] = s]
  /\ emitted' = {}
  /\ UNCHANGED <<onlineDrivers, rides, timers, tasks, offered, lookingRiders>>

\* socket.on("driver_online")
DriverOnline(s, uid, loc) ==
  /\ sockets[s].open
  /\ sockets' = [sockets EXCEPT ![s].userId = uid, ![s].driverUID = uid]
  /\ userSocketMap' = [userSocketMap EXCEPT ![uid] = s]
  /\ onlineDrivers' = PutDriver(onlineDrivers, DriverEntry(uid, s, loc, "available"))
  /\ emitted' = {}
  /\ UNCHANGED <<rides, timers, tasks, offered, lookingRiders>>

\* socket.on("update_location")
UpdateLocation(s, uid, loc) ==
  /\ sockets[s].open
  /\ onlineDrivers' = SetLocation(onlineDrivers, uid, loc)
  /\ emitted' = {}
  /\ UNCHANGED <<sockets, userSocketMap, rides, timers, tasks, offered, lookingRiders>>

\* socket.on("driver_offline")
DriverOffline(s) ==
  /\ sockets[s].open
  /\ onlineDrivers' =
       IF sockets[s].driverUID # NoUid /\ HasDriver(onlineDrivers, sockets[s].driverUID)
         THEN RemoveDriver(onlineDrivers, sockets[s].driverUID)
         ELSE onlineDrivers
  /\ emitted' = {}
  /\ UNCHANGED <<sockets, userSocketMap, rides, timers, tasks, offered, lookingRiders>>

Unregister_Always(map, uid, s) == [map EXCEPT ![uid] = NoSocket]

\* if (userSocketMap[disconnectedUid] === socket.id) delete userSocketMap[disconnectedUid]
Unregister(map, uid, s) ==
  IF map[uid] = s THEN [map EXCEPT ![uid] = NoSocket] ELSE map

\* the rider-pool cleanup of the disconnect handler applies
RiderCleanup(s) ==
  /\ sockets[s].userId # NoUid
  /\ sockets[s].riderUID = sockets[s].userId
  /\ HasRider(lookingRiders, sockets[s].userId)

\* socket.on("disconnect")
Disconnect(s) ==
  LET uid == sockets[s].userId IN
  /\ sockets[s].open
  /\ sockets' = [sockets EXCEPT ![s].open = FALSE]
  /\ userSocketMap' =
       IF uid # NoUid THEN Unregister(userSocketMap, uid, s) ELSE userSocketMap
  /\ onlineDrivers' =
       IF uid # NoUid /\ sockets[s].driverUID = uid /\ HasDriver(onlineDrivers, uid)
         THEN RemoveDriver(onlineDrivers, uid)
         ELSE onlineDrivers
  /\ lookingRiders' =
       IF RiderCleanup(s)
         THEN RemoveRider(ClearRequestsFrom(lookingRiders, uid), uid)
         ELSE lookingRiders
  /\ emitted' =
       IF RiderCleanup(s)
         THEN UNION {notifyUser(userSocketMap', otherUid,
                                FailedEvent(NoSocket, "community_request_failed",
                                            uid, "User disconnected.")).emits :
                       otherUid \in RequestedBy(lookingRiders, uid)}
         ELSE {}
  /\ UNCHANGED <<rides, timers, tasks, offered>>

\* ------------------------------------------------ community-connect handlers
\* socket.on("rider_looking_for_match")
RiderLookingForMatch(s, uid, location, destination) ==
  /\ sockets[s].open
  /\ sockets' = [sockets EXCEPT ![s].userId = uid, ![s].riderUID = uid]
  /\ userSocketMap' = [userSocketMap EXCEPT ![uid] = s]
  /\ lookingRiders' = PutRider(lookingRiders, RiderEntry(uid, s, location, destination))
  /\ emitted' = {}
  /\ UNCHANGED <<onlineDrivers, rides, timers, tasks, offered>>

\* socket.on("rider_stopped_looking")
RiderStoppedLooking(s) ==
  /\ sockets[s].open
  /\ lookingRiders' =
       IF sockets[s].riderUID # NoUid /\ HasRider(lookingRiders, sockets[s].riderUID)
         THEN RemoveRider(lookingRiders, sockets[s].riderUID)
         ELSE lookingRiders
  /\ emitted' = {}
  /\ UNCHANGED <<sockets, userSocketMap, onlineDrivers, rides, timers, tasks, offered>>

\* socket.on("request_community_connection")
RequestCommunityConnection(s, fromUid, toUid, riderADetails) ==
  /\ sockets[s].open
  /\ IF HasRider(lookingRiders, toUid)
       THEN /\ lookingRiders' =
                 SetRequest(lookingRiders, toUid, Request(fromUid, riderADetails))
            /\ emitted' = {PeerEvent(GetRider(lookingRiders, toUid).socketId,
                                     "community_connection_requested",
                                     fromUid, riderADetails, NoRoom)}
       ELSE /\ lookingRiders' = lookingRiders
            /\ emitted' = {FailedEvent(s, "community_request_failed", toUid,
                                       "User is no longer available.")}
  /\ UNCHANGED <<sockets, userSocketMap, onlineDrivers, rides, timers, tasks, offered>>

\* the three events of a successful accept_community_connection
AcceptedEvents(s, riderA, acceptedUid, myUid, myDetails, riderADetails, roomId) ==
  {PeerEvent(riderA.socketId, "community_connection_accepted", myUid, myDetails, NoRoom),
   PeerEvent(riderA.socketId, "initiate_video_call", myUid, myDetails, roomId),
   PeerEvent(s, "initiate_video_call", acceptedUid, riderADetails, roomId)}

\* if (riderA && riderADetails)
CanAccept(pool, acceptedUid, myUid) ==
  /\ HasRider(pool, acceptedUid)
  /\ RequestOf(pool, myUid).details # NoDetails

\* socket.on("accept_community_connection")
AcceptCommunityConnection(s, acceptedUid, myUid, myDetails, now) ==
  LET riderADetails == RequestOf(lookingRiders, myUid).details IN
  /\ sockets[s].open
  /\ IF CanAccept(lookingRiders, acceptedUid, myUid)
       THEN /\ emitted' = AcceptedEvents(s, GetRider(lookingRiders, acceptedUid),
                                         acceptedUid, myUid, myDetails, riderADetails,
                                         RoomId(now, acceptedUid, myUid))
            /\ lookingRiders' =
                 RemoveRider(RemoveRider(lookingRiders, acceptedUid), myUid)
       ELSE /\ emitted' = {FailedEvent(s, "community_video_failed", NoUid,
                                       "Other user disconnected or request expired.")}
            /\ lookingRiders' = SetRequest(lookingRiders, myUid, NoRequest)
  /\ UNCHANGED <<sockets, userSocketMap, onlineDrivers, rides, timers, tasks, offered>>

RejectedEvents_None(pool, rejectedUid, myUid) == {}

\* const riderA = lookingRiders[rejectedUid]; if (riderA) io.to(...).emit(...)
RejectedEvents(pool, rejectedUid, myUid) ==
  IF HasRider(pool, rejectedUid)
    THEN {PeerEvent(GetRider(pool, rejectedUid).socketId,
                    "community_connection_rejected", myUid, NoDetails, NoRoom)}
    ELSE {}

\* socket.on("reject_community_connection")
RejectCommunityConnection(s, rejectedUid, myUid) ==
  /\ sockets[s].open
  /\ lookingRiders' =
       IF RequestOf(lookingRiders, myUid).uid = rejectedUid
         THEN SetRequest(lookingRiders, myUid, NoRequest)
         ELSE lookingRiders
  /\ emitted' = RejectedEvents(lookingRiders, rejectedUid, myUid)
  /\ UNCHANGED <<sockets, userSocketMap, onlineDrivers, rides, timers, tasks, offered>>

\* ------------------------------------------------ sendRideRequestToDriver
\* const driver = onlineDrivers[driverUid]; if (driver && driver.socketId)
SendReachable(pool, driverUid) == HasDriver(pool, driverUid)

\* driver.status = "pending"
MarkOffered(pool, driverUid) == SetStatusIfPresent(pool, driverUid, "pending")

\* the pool, the timers, the emitted offer and what the driver's client has
\* received after
\* sendRideRequestToDriver(driverUid, {rideId, ...}); its return value is
\* SendReachable
SendPool(pool, driverUid) ==
  IF SendReachable(pool, driverUid) THEN MarkOffered(pool, driverUid) ELSE pool

SendTimers(pool, driverUid, rideId) ==
  IF SendReachable(pool, driverUid)
    THEN Append(timers, [driverUid |-> driverUid, rideId |-> rideId, answered |-> FALSE])
    ELSE timers

SendEmitted(pool, driverUid, rideId) ==
  IF SendReachable(pool, driverUid)
    THEN {Event(GetDriver(pool, driverUid).socketId, "new_ride_request", rideId)}
    ELSE {}

SendOffered(pool, driverUid, rideId) ==
  IF SendReachable(pool, driverUid)
    THEN [offered EXCEPT ![driverUid] = @ \cup {rideId}]
    ELSE offered

\* a faulty callback that frees every driver with an offer
TimeoutPool_All(pool, driverUid) ==
  [i \in 1..Len(pool) |->
     IF pool[i].status = "pending" THEN [pool[i] EXCEPT !.status = "available"]
     ELSE pool[i]]

\* the setTimeout callback of sendRideRequestToDriver, 30 s after the offer;
\* equal delays fire in the order the timers were started
TimeoutPool(pool, driverUid) ==
  IF HasDriver(pool, driverUid) /\ GetDriver(pool, driverUid).status = "pending"
    THEN SetStatusIfPresent(pool, driverUid, "available")
    ELSE pool

TimerFires ==
  /\ timers # <<>>
  /\ onlineDrivers' = TimeoutPool(onlineDrivers, Head(timers).driverUid)
  /\ timers' = Tail(timers)
  /\ emitted' = {}
  /\ UNCHANGED <<sockets, userSocketMap, rides, tasks, offered, lookingRiders>>

\* The driver's response to the offer of rideId is on record: every timer started
\* for that offer belongs to an answered offer (the timers themselves are never
\* cleared).
Answered(driverUid, rideId) ==
  [i \in 1..Len(timers) |->
     IF timers[i].driverUid = driverUid /\ timers[i].rideId = rideId
       THEN [timers[i] EXCEPT !.answered = TRUE]
       ELSE timers[i]]

\* ------------------------------------------------- driver_accepted handler
\* a faulty update that records the acceptance but not the accepting driver
AcceptedUpdate_NoDriver(doc, driverUid) ==
  [doc EXCEPT !.status = "accepted", !.acceptedAt = "iso"]

\* rideRef.update({status: "accepted", driverId, ..., acceptedAt})
AcceptedUpdate(doc, driverUid) ==
  [doc EXCEPT !.status = "accepted", !.driverId = driverUid, !.acceptedAt = "iso"]

\* if (onlineDrivers[socket.driverUID]) status = "on-ride"
MarkOnRide(pool, driverUid) == SetStatusIfPresent(pool, driverUid, "on-ride")

\* a faulty revert that leaves the pool as it is
RevertAvailable_Keep(pool, driverUid) == pool

\* catch: if (onlineDrivers[socket.driverUID]) status = "available"
RevertAvailable(pool, driverUid) == SetStatusIfPresent(pool, driverUid, "available")

\* lines 75-86: up to the awaited rideRef.update
DriverAccepted(s, rideId) ==
  /\ sockets[s].open
  /\ sockets[s].driverUID # NoUid
  /\ HasFreeSlot
  /\ onlineDrivers' = MarkOnRide(onlineDrivers, sockets[s].driverUID)
  /\ tasks' = Start(Task("acc_update", s, rideId, sockets[s].driverUID,
                         NoData, NoUid, NoUid, 0))
  /\ timers' = Answered(sockets[s].driverUID, rideId)
  /\ emitted' = {}
  /\ UNCHANGED <<sockets, userSocketMap, rides, offered, lookingRiders>>

\* lines 86-95: the update succeeded; ride_confirmed; await rideRef.get()
AcceptUpdateOk(t) ==
  /\ t.pc = "acc_update"
  /\ Exists(t.rideId)
  /\ rides' = [rides EXCEPT ![t.rideId] = AcceptedUpdate(@, t.driver)]
  /\ emitted' = {Event(t.socket, "ride_confirmed", t.rideId)}
  /\ tasks' = Resume(t, [t EXCEPT !.pc = "acc_get"])
  /\ UNCHANGED <<sockets, userSocketMap, onlineDrivers, timers, offered, lookingRiders>>

\* lines 95-101: the get succeeded; notify the rider
AcceptNotify(doc, rideId) ==
  IF doc.riderId # NoUid THEN Notify(doc.riderId, "ride_accepted", rideId) ELSE {}

AcceptGetOk(t) ==
  /\ t.pc = "acc_get"
  /\ emitted' = AcceptNotify(rides[t.rideId], t.rideId)
  /\ tasks' = Finish(t)
  /\ UNCHANGED <<sockets, userSocketMap, onlineDrivers, rides, timers, offered, lookingRiders>>

\* lines 102-114: the catch block (a store call rejected, or the document
\* does not exist)
AcceptFail(t) ==
  /\ t.pc \in {"acc_update", "acc_get"}
  /\ emitted' = {Event(NoSocket, "console_error", t.rideId),
                 Event(t.socket, "ride_update_failed", t.rideId)}
  /\ onlineDrivers' = RevertAvailable(onlineDrivers, sockets[t.socket].driverUID)
  /\ tasks' = Finish(t)
  /\ UNCHANGED <<sockets, userSocketMap, rides, timers, offered, lookingRiders>>

\* ------------------------------------------------- driver_rejected handler
\* lines 117-128: up to the awaited rideRef.get()
DriverRejected(s, rideId) ==
  /\ sockets[s].open
  /\ sockets[s].driverUID # NoUid
  /\ HasFreeSlot
  /\ onlineDrivers' = RevertAvailable(onlineDrivers, sockets[s].driverUID)
  /\ tasks' = Start(Task("rej_get", s, rideId, NoUid, NoData, NoUid, NoUid, 0))
  /\ timers' = Answered(sockets[s].driverUID, rideId)
  /\ emitted' = {}
  /\ UNCHANGED <<sockets, userSocketMap, rides, offered, lookingRiders>>

\* lines 128-134: rideData = snapshot.data() (undefined for a missing
\* document); await update({status: "rejected_by_driver", rejectedBy})
RejectGetOk(t) ==
  /\ t.pc = "rej_get"
  /\ tasks' = Resume(t, [t EXCEPT !.pc = "rej_update1",
                                   !.rideData = DataOf(rides[t.rideId]),
                                   !.driver = sockets[t.socket].driverUID])
  /\ emitted' = {}
  /\ UNCHANGED <<sockets, userSocketMap, onlineDrivers, rides, timers, offered, lookingRiders>>

RejectedUpdate(doc, driverUid) ==
  [doc EXCEPT !.status = "rejected_by_driver", !.rejectedBy = driverUid]

\* findNearbyDrivers(rideData.pickup, 10, socket.driverUID)
NextCandidates(pool, doc, excludedDriverId) ==
  findNearbyDrivers(pool, doc.pickup, RadiusKm, excludedDriverId)

\* lines 131-162 / 171: the first update succeeded; search again excluding the
\* rejecting driver; await update({status: "pending"}) or, with no candidate,
\* update({status: "cancelled_system"})
RejectUpdate1Ok(t) ==
  LET doc == t.rideData
      nearby == NextCandidates(onlineDrivers, doc, sockets[t.socket].driverUID)
  IN
  /\ t.pc = "rej_update1"
  /\ Exists(t.rideId)
  /\ rides' = [rides EXCEPT ![t.rideId] = RejectedUpdate(@, t.driver)]
  /\ tasks' =
       IF ~doc.defined THEN Finish(t)
       ELSE IF Len(nearby) > 0
         THEN Resume(t, [t EXCEPT !.pc = "rej_update2", !.nextDriver = nearby[1].uid])
         ELSE Resume(t, [t EXCEPT !.pc = "rej_update3"])
  /\ emitted' = {}
  /\ UNCHANGED <<sockets, userSocketMap, onlineDrivers, timers, offered, lookingRiders>>

PendingUpdate(doc) == [doc EXCEPT !.status = "pending", !.driverId = NoUid]

\* lines 158-166: back to pending, then sendRideRequestToDriver(nextDriver.uid)
RejectUpdate2Ok(t) ==
  LET d == t.nextDriver
      r == t.rideId
  IN
  /\ t.pc = "rej_update2"
  /\ Exists(r)
  /\ SendReachable(onlineDrivers, d) => Len(timers) < MaxTimers
  /\ rides' = [rides EXCEPT ![r] = PendingUpdate(@)]
  /\ onlineDrivers' = SendPool(onlineDrivers, d)
  /\ timers' = SendTimers(onlineDrivers, d, r)
  /\ emitted' = SendEmitted(onlineDrivers, d, r)
  /\ tasks' = Finish(t)
  /\ offered' = SendOffered(onlineDrivers, d, r)
  /\ UNCHANGED <<sockets, userSocketMap, lookingRiders>>

\* a faulty update that leaves the document as it is
CancelledUpdate_Keep(doc) == doc

CancelledUpdate(doc) == [doc EXCEPT !.status = "cancelled_system"]

\* lines 171-178: no other driver; cancel and tell the rider
RejectUpdate3Ok(t) ==
  /\ t.pc = "rej_update3"
  /\ Exists(t.rideId)
  /\ rides' = [rides EXCEPT ![t.rideId] = CancelledUpdate(@)]
  /\ emitted' = Notify(t.rideData.riderId, "no_driver_found", t.rideId)
  /\ tasks' = Finish(t)
  /\ UNCHANGED <<sockets, userSocketMap, onlineDrivers, timers, offered, lookingRiders>>

\* lines 181-186: the catch block only logs
RejectFail(t) ==
  /\ t.pc \in {"rej_get", "rej_update1", "rej_update2", "rej_update3"}
  /\ emitted' = {Event(NoSocket, "console_error", t.rideId)}
  /\ tasks' = Finish(t)
  /\ UNCHANGED <<sockets, userSocketMap, onlineDrivers, rides, timers, offered, lookingRiders>>

\* ------------------------------------------------------------ requestRide
RidesInFlight == BagCardinality(tasks) - BagCardinality(tasks (-) [t \in {u \in Running : u.pc = "req_add"} |-> MaxTasks])
RidesStored == Cardinality({r \in RideIds : Exists(r)})

\* the two replies of requestRide when the driver search is empty: 404
\* NO_DRIVERS_OR_RIDERS, or 200 COMMUNITY_MATCH_FOUND when findNearbyRiders
\* finds a rider in the looking-rider pool
NoDriverReplies == {"http_404_no_drivers_or_riders", "http_200_community_match"}

\* lines 145-176: no driver within the radius; reply without creating a ride
RequestRideNoDrivers(riderId, pickupLocation) ==
  /\ findNearbyDrivers(onlineDrivers, pickupLocation, RadiusKm, NoUid) = <<>>
  /\ \E reply \in NoDriverReplies : emitted' = {Event(NoSocket, reply, NoRideId)}
  /\ UNCHANGED <<sockets, userSocketMap, onlineDrivers, rides, timers, tasks, offered, lookingRiders>>

\* lines 145-196: closest driver chosen; await db.collection("rides").add
RequestRide(riderId, pickupLocation) ==
  LET nearby == findNearbyDrivers(onlineDrivers, pickupLocation, RadiusKm, NoUid) IN
  /\ Len(nearby) > 0
  /\ HasFreeSlot
  /\ RidesStored + RidesInFlight < MaxRides
  /\ tasks' = Start(Task("req_add", NoSocket, NoRideId, NoUid, NoData,
                         nearby[1].uid, riderId, pickupLocation))
  /\ emitted' = {}
  /\ UNCHANGED <<sockets, userSocketMap, onlineDrivers, rides, timers, offered, lookingRiders>>

\* lines 196-235: the document was created; offer it to the closest driver;
\* reply 200, or await update({status: "cancelled_system"}) when the driver
\* is gone
RequestAddOk(t) ==
  LET d == t.nextDriver
      r == FreshRideId
  IN
  /\ t.pc = "req_add"
  /\ SendReachable(onlineDrivers, d) => Len(timers) < MaxTimers
  /\ rides' = [rides EXCEPT ![r] = NewRide(t.rider, t.pickup)]
  /\ onlineDrivers' = SendPool(onlineDrivers, d)
  /\ timers' = SendTimers(onlineDrivers, d, r)
  /\ emitted' = SendEmitted(onlineDrivers, d, r) \cup
       (IF SendReachable(onlineDrivers, d) THEN {Event(NoSocket, "http_200", r)} ELSE {})
  /\ tasks' =
       IF SendReachable(onlineDrivers, d) THEN Finish(t)
       ELSE Resume(t, [t EXCEPT !.pc = "req_update", !.rideId = r])
  /\ offered' = SendOffered(onlineDrivers, d, r)
  /\ UNCHANGED <<sockets, userSocketMap, lookingRiders>>

\* lines 217-226: the ride is cancelled_system; reply 503
RequestUpdateOk(t) ==
  /\ t.pc = "req_update"
  /\ rides' = [rides EXCEPT ![t.rideId] = CancelledUpdate(@)]
  /\ emitted' = {Event(NoSocket, "http_503", t.rideId)}
  /\ tasks' = Finish(t)
  /\ UNCHANGED <<sockets, userSocketMap, onlineDrivers, timers, offered, lookingRiders>>

\* lines 236-239: catch: next(error)
RequestFail(t) ==
  /\ t.pc \in {"req_add", "req_update"}
  /\ emitted' = {Event(NoSocket, "console_error", t.rideId),
                 Event(NoSocket, "http_error", t.rideId)}
  /\ tasks' = Finish(t)
  /\ UNCHANGED <<sockets, userSocketMap, onlineDrivers, rides, timers, offered, lookingRiders>>

\* --------------------------------------------------------- ride lifecycle
\* markArrived, startRide, completeRide and cancelRide of rides.controller.js:
\* each awaits rideRef.get(), validates what it read, and awaits
\* rideRef.update().  A call in flight keeps its caller (req.user.uid), and
\* after the get the riderId and the driverId it read.

\* makeDriverAvailable(driverUid)
makeDriverAvailable(pool, driverUid) == SetStatusIfPresent(pool, driverUid, "available")

\* the call: up to the awaited rideRef.get()
Call(pc, uid, rideId) ==
  /\ HasFreeSlot
  /\ tasks' = Start(Task(pc, NoSocket, rideId, uid, NoData, NoUid, NoUid, 0))
  /\ emitted' = {}
  /\ UNCHANGED <<sockets, userSocketMap, onlineDrivers, lookingRiders, rides, timers,
                 offered>>

\* the validation of markArrived, startRide and completeRide: 404 without a
\* document, 403 for a caller that is not the ride's driver, 400 in any status
\* but the expected one
Validate(doc, driverId, expected) ==
  IF doc.status = "none" THEN "http_404"
  ELSE IF doc.driverId # driverId THEN "http_403"
  ELSE IF doc.status # expected THEN "http_400"
  ELSE "ok"

TerminalStatuses == {"completed", "cancelled_rider", "cancelled_driver", "cancelled_system"}

\* the validation of cancelRide: the caller is the ride's rider or driver, and
\* the ride is not in a terminal status
ValidateCancel(doc, cancellerUid) ==
  IF doc.status = "none" THEN "http_404"
  ELSE IF doc.riderId # cancellerUid /\ doc.driverId # cancellerUid THEN "http_403"
  ELSE IF doc.status \in TerminalStatuses THEN "http_400"
  ELSE "ok"

\* the get succeeded: reply with the validation's error, or go on to the
\* awaited rideRef.update()
GetOk(t, verdict, pcUpdate) ==
  /\ tasks' =
       IF verdict = "ok"
         THEN Resume(t, [t EXCEPT !.pc = pcUpdate,
                                  !.rideData = DataOf(rides[t.rideId]),
                                  !.nextDriver = rides[t.rideId].driverId])
         ELSE Finish(t)
  /\ emitted' = IF verdict = "ok" THEN {} ELSE {Event(NoSocket, verdict, t.rideId)}
  /\ UNCHANGED <<sockets, userSocketMap, onlineDrivers, lookingRiders, rides, timers,
                 offered>>

\* the update succeeded: the new status is stored, the other party is
\* notified, the reply is 200
UpdateOk(t, status, pool, notified, name) ==
  /\ rides' = [rides EXCEPT ![t.rideId].status = status]
  /\ onlineDrivers' = pool
  /\ emitted' = Notify(notified, name, t.rideId) \cup {Event(NoSocket, "http_200", t.rideId)}
  /\ tasks' = Finish(t)
  /\ UNCHANGED <<sockets, userSocketMap, lookingRiders, timers, offered>>

\* catch: console.error and next(error)
Fail(t, pool) ==
  /\ onlineDrivers' = pool
  /\ emitted' = {Event(NoSocket, "console_error", t.rideId),
                 Event(NoSocket, "http_error", t.rideId)}
  /\ tasks' = Finish(t)
  /\ UNCHANGED <<sockets, userSocketMap, lookingRiders, rides, timers, offered>>

\* exports.markArrived
MarkArrived(driverId, rideId) == Call("arr_get", driverId, rideId)

MarkArrivedGetOk(t) ==
  /\ t.pc = "arr_get"
  /\ GetOk(t, Validate(rides[t.rideId], t.driver, "accepted"), "arr_update")

MarkArrivedUpdateOk(t) ==
  /\ t.pc = "arr_update"
  /\ UpdateOk(t, "driver_arrived", onlineDrivers, t.rideData.riderId, "driver_arrived")

MarkArrivedFail(t) ==
  /\ t.pc \in {"arr_get", "arr_update"}
  /\ Fail(t, onlineDrivers)

\* exports.startRide
StartRide(driverId, rideId) == Call("start_get", driverId, rideId)

StartRideGetOk(t) ==
  /\ t.pc = "start_get"
  /\ GetOk(t, Validate(rides[t.rideId], t.driver, "driver_arrived"), "start_update")

StartRideUpdateOk(t) ==
  /\ t.pc = "start_update"
  /\ UpdateOk(t, "ongoing", onlineDrivers, t.rideData.riderId, "ride_started")

StartRideFail(t) ==
  /\ t.pc \in {"start_get", "start_update"}
  /\ Fail(t, onlineDrivers)

\* exports.completeRide: makeDriverAvailable(driverId) after the update, and
\* makeDriverAvailable(req.user.uid) in the catch block
CompleteRide(driverId, rideId) == Call("comp_get", driverId, rideId)

CompleteRideGetOk(t) ==
  /\ t.pc = "comp_get"
  /\ GetOk(t, Validate(rides[t.rideId], t.driver, "ongoing"), "comp_update")

CompleteRideUpdateOk(t) ==
  /\ t.pc = "comp_update"
  /\ UpdateOk(t, "completed", makeDriverAvailable(onlineDrivers, t.driver),
              t.rideData.riderId, "ride_completed")

CompleteRideFail(t) ==
  /\ t.pc \in {"comp_get", "comp_update"}
  /\ Fail(t, makeDriverAvailable(onlineDrivers, t.driver))

\* exports.cancelRide: req.user.type is "driver" for a driver's token and
\* "rider" for a rider's
CancelRide(cancellerUid, rideId) == Call("cancel_get", cancellerUid, rideId)

CancelRideGetOk(t) ==
  /\ t.pc = "cancel_get"
  /\ GetOk(t, ValidateCancel(rides[t.rideId], t.driver), "cancel_update")

CancelRideUpdateOk(t) ==
  LET byRider == t.driver \in Riders IN
  /\ t.pc = "cancel_update"
  /\ UpdateOk(t, IF byRider THEN "cancelled_rider" ELSE "cancelled_driver",
              IF t.nextDriver # NoUid
                THEN makeDriverAvailable(onlineDrivers, t.nextDriver)
                ELSE onlineDrivers,
              IF byRider THEN t.nextDriver ELSE t.rideData.riderId,
              "ride_cancelled")

CancelRideFail(t) ==
  /\ t.pc \in {"cancel_get", "cancel_update"}
  /\ Fail(t, onlineDrivers)

\* ---------------------------------------------------------- specification
DriverSockets == {s \in Sockets : Owner(s) \in Drivers}
SpecSockets == {s \in DriverSockets : Owner(s) <= SpecDrivers}
RiderSockets == {s \in Sockets : Owner(s) \in Riders}

\* the riders that request rides, and their connections
Requesters == {u \in Riders : u <= NDrivers + RideRiders}
RequesterSockets == {s \in RiderSockets : Owner(s) \in Requesters}

\* The dispatch protocol under overlapping handlers: riders and drivers
\* connect, drivers go online and offline, rides are requested, drivers answer
\* any ride they were ever offered (ride ids are unguessable document ids, learnt
\* from an offer) at any time and any number of times, store calls succeed or
\* fail, timers fire.  No connection closes; SpecDrivers drivers and SpecRides
\* rides take part.
Next ==
  \/ \E s \in RequesterSockets : UserConnect(s, Owner(s))
  \/ \E s \in SpecSockets : DriverOnline(s, Owner(s), HomeLoc(Owner(s)))
  \/ \E s \in SpecSockets : DriverOffline(s)
  \/ \E s \in SpecSockets : \E r \in offered[Owner(s)] : DriverAccepted(s, r)
  \/ \E s \in SpecSockets : \E r \in offered[Owner(s)] : DriverRejected(s, r)
  \/ \E t \in Running : AcceptUpdateOk(t)
  \/ \E t \in Running : AcceptGetOk(t)
  \/ \E t \in Running : AcceptFail(t)
  \/ \E t \in Running : RejectGetOk(t)
  \/ \E t \in Running : RejectUpdate1Ok(t)
  \/ \E t \in Running : RejectUpdate2Ok(t)
  \/ \E t \in Running : RejectUpdate3Ok(t)
  \/ \E t \in Running : RejectFail(t)
  \/ \E u \in Requesters, p \in PickupLocs : RequestRideNoDrivers(u, p)
  \/ \E u \in Requesters, p \in PickupLocs :
       RidesStored + RidesInFlight < SpecRides /\ RequestRide(u, p)
  \/ \E t \in Running : RequestAddOk(t)
  \/ \E t \in Running : RequestUpdateOk(t)
  \/ \E t \in Running : RequestFail(t)
  \/ TimerFires

Spec == Init /\ [][Next]_vars

\* The driver pool under handlers that run one after the other (an event is
\* handled only when no handler is suspended, and store calls succeed): drivers
\* announce and move to any location, go offline, disconnect, are offered
\* rides and accept them, timers fire.
Idle == tasks = EmptyBag

\* where drivers announce themselves: at the pickup, one step away, out of range
PoolLocs == {0, 1, MaxLoc}

NextPool ==
  \/ \E s \in DriverSockets, loc \in PoolLocs : Idle /\ DriverOnline(s, Owner(s), loc)
  \/ \E s \in DriverSockets, loc \in PoolLocs : Idle /\ UpdateLocation(s, Owner(s), loc)
  \/ \E s \in DriverSockets : Idle /\ DriverOffline(s)
  \/ \E s \in DriverSockets : Idle /\ Disconnect(s)
  \/ \E s \in DriverSockets : \E r \in offered[Owner(s)] : Idle /\ DriverAccepted(s, r)
  \/ \E t \in Running : AcceptUpdateOk(t)
  \/ \E t \in Running : AcceptGetOk(t)
  \/ \E u \in Requesters, p \in PickupLocs : Idle /\ RequestRideNoDrivers(u, p)
  \/ \E u \in Requesters, p \in PickupLocs : Idle /\ RequestRide(u, p)
  \/ \E t \in Running : RequestAddOk(t)
  \/ TimerFires

PoolSpec == Init /\ [][NextPool]_vars

\* The driver pool alone: as PoolSpec, with drivers at every location and a
\* single ride, so that the pool takes every shape while little else varies.
NextFind ==
  \/ \E s \in DriverSockets, loc \in Locs : Idle /\ DriverOnline(s, Owner(s), loc)
  \/ \E s \in DriverSockets, loc \in Locs : Idle /\ UpdateLocation(s, Owner(s), loc)
  \/ \E s \in DriverSockets : Idle /\ DriverOffline(s)
  \/ \E s \in DriverSockets : Idle /\ Disconnect(s)
  \/ \E s \in DriverSockets : \E r \in offered[Owner(s)] : Idle /\ DriverAccepted(s, r)
  \/ \E t \in Running : AcceptUpdateOk(t)
  \/ \E t \in Running : AcceptGetOk(t)
  \/ \E u \in Requesters, p \in PickupLocs :
       Idle /\ RidesStored + RidesInFlight < SpecRides /\ RequestRide(u, p)
  \/ \E t \in Running : RequestAddOk(t)
  \/ TimerFires

FindSpec == Init /\ [][NextFind]_vars

\* Sequential dispatch: every driver and every ride takes part and connections
\* close, but an event is handled only when no handler is suspended, store
\* calls succeed, a driver announces itself once it is not in the pool, and
\* answers an offer once, within its 30 s.
\* the offers a driver's client still shows: received, not answered, and less
\* than 30 s old
LiveOffers(driverUid) ==
  {r \in offered[driverUid] :
     \E i \in 1..Len(timers) :
       /\ timers[i].driverUid = driverUid
       /\ timers[i].rideId = r
       /\ ~timers[i].answered}

NextSeq ==
  \/ \E s \in RequesterSockets : Idle /\ UserConnect(s, Owner(s))
  \/ \E s \in DriverSockets : 
       /\ Idle /\ ~HasDriver(onlineDrivers, Owner(s))
       /\ DriverOnline(s, Owner(s), HomeLoc(Owner(s)))
  \/ \E s \in DriverSockets : Idle /\ Disconnect(s)
  \/ \E s \in DriverSockets : \E r \in LiveOffers(Owner(s)) : Idle /\ DriverAccepted(s, r)
  \/ \E s \in DriverSockets : \E r \in LiveOffers(Owner(s)) : Idle /\ DriverRejected(s, r)
  \/ \E t \in Running : AcceptUpdateOk(t)
  \/ \E t \in Running : AcceptGetOk(t)
  \/ \E t \in Running : RejectGetOk(t)
  \/ \E t \in Running : RejectUpdate1Ok(t)
  \/ \E t \in Running : RejectUpdate2Ok(t)
  \/ \E t \in Running : RejectUpdate3Ok(t)
  \/ \E u \in Requesters, p \in PickupLocs : Idle /\ RequestRide(u, p)
  \/ \E t \in Running : RequestAddOk(t)
  \/ TimerFires

SeqSpec == Init /\ [][NextSeq]_vars

\* Community connect: every rider's client announces its own uid on its one
\* connection and sends its own uid and profile as the sender of an invite or
\* of a response, while the rider an invite goes to or a response names is any
\* rider; riders start and stop looking, invite, accept, reject and disconnect.
NextPeer ==
  \/ \E s \in RiderSockets, dest \in PickupLocs :
       RiderLookingForMatch(s, Owner(s), HomeLoc(Owner(s)), dest)
  \/ \E s \in RiderSockets : RiderStoppedLooking(s)
  \/ \E s \in RiderSockets, toUid \in Riders :
       RequestCommunityConnection(s, Owner(s), toUid, Profile(Owner(s)))
  \/ \E s \in RiderSockets, acceptedUid \in Riders, now \in Times :
       AcceptCommunityConnection(s, acceptedUid, Owner(s), Profile(Owner(s)), now)
  \/ \E s \in RiderSockets, rejectedUid \in Riders :
       RejectCommunityConnection(s, rejectedUid, Owner(s))
  \/ \E s \in RiderSockets : Disconnect(s)

PeerSpec == Init /\ [][NextPeer]_vars

\* Reconnection: a rider may be connected on several sockets, so any rider
\* socket announces any rider's uid, by user_connect or by starting to look;
\* sockets stop looking and disconnect in any order.
Reconnecting == {u \in Riders : u <= NDrivers + ReconnectRiders}
ReconnectSockets == {s \in RiderSockets : Owner(s) \in Reconnecting}

NextReconnect ==
  \/ \E s \in ReconnectSockets, uid \in Reconnecting : UserConnect(s, uid)
  \/ \E s \in ReconnectSockets, uid \in Reconnecting, dest \in PickupLocs :
       RiderLookingForMatch(s, uid, HomeLoc(uid), dest)
  \/ \E s \in ReconnectSockets : RiderStoppedLooking(s)
  \/ \E s \in ReconnectSockets : Disconnect(s)

ReconnectSpec == Init /\ [][NextReconnect]_vars

\* Dispatch to completion: sequential dispatch of SpecRides rides among
\* SpecDrivers drivers, where every timer that was started fires and every
\* store call that was awaited completes with success.  Drivers are free never
\* to answer.
NextLive ==
  \/ \E s \in RequesterSockets : Idle /\ UserConnect(s, Owner(s))
  \/ \E s \in SpecSockets :
       /\ Idle /\ ~HasDriver(onlineDrivers, Owner(s))
       /\ DriverOnline(s, Owner(s), HomeLoc(Owner(s)))
  \/ \E s \in SpecSockets : Idle /\ Disconnect(s)
  \/ \E s \in SpecSockets : \E r \in LiveOffers(Owner(s)) : Idle /\ DriverAccepted(s, r)
  \/ \E s \in SpecSockets : \E r \in LiveOffers(Owner(s)) : Idle /\ DriverRejected(s, r)
  \/ \E t \in Running : AcceptUpdateOk(t)
  \/ \E t \in Running : AcceptGetOk(t)
  \/ \E t \in Running : RejectGetOk(t)
  \/ \E t \in Running : RejectUpdate1Ok(t)
  \/ \E t \in Running : RejectUpdate2Ok(t)
  \/ \E t \in Running : RejectUpdate3Ok(t)
  \/ \E u \in Requesters, p \in PickupLocs :
       Idle /\ RidesStored + RidesInFlight < SpecRides /\ RequestRide(u, p)
  \/ \E t \in Running : RequestAddOk(t)
  \/ TimerFires

\* an awaited store call completes and its handler runs on
StoreCompletes ==
  \E t \in Running :
    \/ AcceptUpdateOk(t) \/ AcceptGetOk(t)
    \/ RejectGetOk(t) \/ RejectUpdate1Ok(t) \/ RejectUpdate2Ok(t) \/ RejectUpdate3Ok(t)
    \/ RequestAddOk(t)

LiveSpec ==
  Init /\ [][NextLive]_vars /\ WF_vars(TimerFires) /\ WF_vars(StoreCompletes)

\* Dispatch next to community connect: sequential dispatch of SpecRides rides
\* among SpecDrivers drivers, with store calls that succeed or fail and timers,
\* while the riders that request no ride start and stop looking for a match.
LookingSockets == RiderSockets \ RequesterSockets

NextScope ==
  \/ \E s \in RequesterSockets : Idle /\ UserConnect(s, Owner(s))
  \/ \E s \in LookingSockets, dest \in PickupLocs :
       Idle /\ RiderLookingForMatch(s, Owner(s), HomeLoc(Owner(s)), dest)
  \/ \E s \in LookingSockets : Idle /\ RiderStoppedLooking(s)
  \/ \E s \in SpecSockets :
       /\ Idle /\ ~HasDriver(onlineDrivers, Owner(s))
       /\ DriverOnline(s, Owner(s), HomeLoc(Owner(s)))
  \/ \E s \in SpecSockets : \E r \in LiveOffers(Owner(s)) : Idle /\ DriverAccepted(s, r)
  \/ \E s \in SpecSockets : \E r \in LiveOffers(Owner(s)) : Idle /\ DriverRejected(s, r)
  \/ \E t \in Running : AcceptUpdateOk(t)
  \/ \E t \in Running : AcceptGetOk(t)
  \/ \E t \in Running : AcceptFail(t)
  \/ \E t \in Running : RejectGetOk(t)
  \/ \E t \in Running : RejectUpdate1Ok(t)
  \/ \E t \in Running : RejectUpdate2Ok(t)
  \/ \E t \in Running : RejectUpdate3Ok(t)
  \/ \E t \in Running : RejectFail(t)
  \/ \E u \in Requesters, p \in PickupLocs :
       Idle /\ RidesStored + RidesInFlight < SpecRides /\ RequestRide(u, p)
  \/ \E t \in Running : RequestAddOk(t)
  \/ TimerFires

ScopeSpec == Init /\ [][NextScope]_vars

\* The ride lifecycle: sequential dispatch of SpecRides rides among SpecDrivers
\* drivers (drivers announce themselves at any time), followed by the HTTP
\* calls of the lifecycle, made by any of these drivers and by the rider for
\* any ride id, overlapping with each other and with the socket handlers at
\* their awaits, with store calls that succeed or fail.
Callers == {Owner(s) : s \in SpecSockets}

DispatchSteps ==
  \/ \E s \in RequesterSockets : Idle /\ UserConnect(s, Owner(s))
  \/ \E s \in SpecSockets : Idle /\ DriverOnline(s, Owner(s), HomeLoc(Owner(s)))
  \/ \E s \in SpecSockets : \E r \in LiveOffers(Owner(s)) : Idle /\ DriverAccepted(s, r)
  \/ \E s \in SpecSockets : \E r \in LiveOffers(Owner(s)) : Idle /\ DriverRejected(s, r)
  \/ \E t \in Running : AcceptUpdateOk(t)
  \/ \E t \in Running : AcceptGetOk(t)
  \/ \E t \in Running : RejectGetOk(t)
  \/ \E t \in Running : RejectUpdate1Ok(t)
  \/ \E t \in Running : RejectUpdate2Ok(t)
  \/ \E t \in Running : RejectUpdate3Ok(t)
  \/ \E u \in Requesters, p \in PickupLocs :
       Idle /\ RidesStored + RidesInFlight < SpecRides /\ RequestRide(u, p)
  \/ \E t \in Running : RequestAddOk(t)
  \/ TimerFires

LifecycleCalls ==
  \/ \E d \in Callers, r \in RideIds : MarkArrived(d, r)
  \/ \E d \in Callers, r \in RideIds : StartRide(d, r)
  \/ \E d \in Callers, r \in RideIds : CompleteRide(d, r)
  \/ \E u \in Callers \cup Requesters, r \in RideIds : CancelRide(u, r)

LifecycleSteps ==
  \/ \E t \in Running : MarkArrivedGetOk(t)
  \/ \E t \in Running : MarkArrivedUpdateOk(t)
  \/ \E t \in Running : MarkArrivedFail(t)
  \/ \E t \in Running : StartRideGetOk(t)
  \/ \E t \in Running : StartRideUpdateOk(t)
  \/ \E t \in Running : StartRideFail(t)
  \/ \E t \in Running : CompleteRideGetOk(t)
  \/ \E t \in Running : CompleteRideUpdateOk(t)
  \/ \E t \in Running : CompleteRideFail(t)
  \/ \E t \in Running : CancelRideGetOk(t)
  \/ \E t \in Running : CancelRideUpdateOk(t)
  \/ \E t \in Running : CancelRideFail(t)

NextRide == DispatchSteps \/ LifecycleCalls \/ LifecycleSteps

RideSpec == Init /\ [][NextRide]_vars

\* The ride lifecycle, one request at a time: as RideSpec, but a lifecycle
\* call is made only when no handler is suspended, so every operation begins
\* after the one before it has ended.
NextRideSeq == DispatchSteps \/ (Idle /\ LifecycleCalls) \/ LifecycleSteps

SeqRideSpec == Init /\ [][NextRideSeq]_vars

\* Clients that name any user: SpecDrivers drivers and ReconnectRiders riders
\* announce their own uid on their own connection, and then every one of
\* these connections sends update_location, invites and responses whose
\* sender field (uid, fromUid, myUid) is any of these users' ids.
AnySockets == SpecSockets \cup ReconnectSockets

NextAnySender ==
  \/ \E s \in SpecSockets : DriverOnline(s, Owner(s), HomeLoc(Owner(s)))
  \/ \E s \in AnySockets, uid \in Callers, loc \in Locs : UpdateLocation(s, uid, loc)
  \/ \E s \in ReconnectSockets, dest \in PickupLocs :
       RiderLookingForMatch(s, Owner(s), HomeLoc(Owner(s)), dest)
  \/ \E s \in AnySockets, fromUid \in Reconnecting, toUid \in Reconnecting :
       RequestCommunityConnection(s, fromUid, toUid, Profile(fromUid))
  \/ \E s \in AnySockets, acceptedUid \in Reconnecting, myUid \in Reconnecting,
        now \in Times :
       AcceptCommunityConnection(s, acceptedUid, myUid, Profile(myUid), now)
  \/ \E s \in AnySockets, rejectedUid \in Reconnecting, myUid \in Reconnecting :
       RejectCommunityConnection(s, rejectedUid, myUid)

AnySenderSpec == Init /\ [][NextAnySender]_vars

\* ------------------------------------------------------------------ offers
\* the handler t was started by this step
Started(t) == CopiesIn(t, tasks') > CopiesIn(t, tasks)

\* this step emitted new_ride_request for rideId to driverUid and started its timer
OfferSent(driverUid, rideId) ==
  /\ Len(timers') = Len(timers) + 1
  /\ timers'[Len(timers')].driverUid = driverUid
  /\ timers'[Len(timers')].rideId = rideId

TimersOf(driverUid) == {i \in 1..Len(timers) : timers[i].driverUid = driverUid}

\* the ride of the newest offer to the driver whose 30 s have not run out
OfferedRide(driverUid) ==
  IF TimersOf(driverUid) = {} THEN NoRideId
  ELSE timers[CHOOSE i \in TimersOf(driverUid) : \A j \in TimersOf(driverUid) : j <= i].rideId

\* the driver's pool entry is "pending" on an offer of rideId
HoldsOffer(driverUid, rideId) ==
  /\ StatusOf(onlineDrivers, driverUid) = "pending"
  /\ OfferedRide(driverUid) = rideId

\* an offer of rideId to the driver is neither answered nor timed out
Unanswered(driverUid, rideId) ==
  \E i \in TimersOf(driverUid) : timers[i].rideId = rideId /\ ~timers[i].answered

\* a pool entry is "pending" only while the timer of its offer is still running
PendingHasTimer ==
  \A d \in Drivers : StatusOf(onlineDrivers, d) = "pending" => TimersOf(d) # {}

\* ------------------------------------------------------------------ claims
\* C1: for every ride, at most one driver holds an outstanding offer (pool
\* status "pending" on that ride) at any time.
C1_OneOfferPerRide ==
  \A r \in RideIds : Cardinality({d \in Drivers : HoldsOffer(d, r)}) <= 1

\* C2: no driver is sent a new_ride_request while its pool entry is still
\* "pending" on an earlier offer, and a "pending" driver is not returned by the
\* candidate search for any pickup.
C2_OneOfferPerDriver ==
  [][/\ \A d \in Drivers, r \in RideIds :
          OfferSent(d, r) => StatusOf(onlineDrivers, d) # "pending"
     /\ \A d \in Drivers, p \in Locs :
          StatusOf(onlineDrivers, d) = "pending" =>
            \A i \in 1..Len(findNearbyDrivers(onlineDrivers, p, RadiusKm, NoUid)) :
              findNearbyDrivers(onlineDrivers, p, RadiusKm, NoUid)[i].uid # d]_vars

\* C3: once a ride document is accepted with driver d, no later step changes
\* its status or its driver id.
C3_AcceptedIsTerminal ==
  [][\A r \in RideIds :
       rides[r].status = "accepted" =>
         /\ rides'[r].status = "accepted"
         /\ rides'[r].driverId = rides[r].driverId]_vars

\* C4: a driver the ride document records as having rejected ride R is not
\* selected as the next candidate for R by a later re-dispatch of R.
C4_RejectorNotReselected ==
  [][\A t \in BagToSet(tasks') :
       (Started(t) /\ t.pc = "rej_update2" /\ rides[t.rideId].rejectedBy # NoUid)
         => t.nextDriver # rides[t.rideId].rejectedBy]_vars

\* C5: when the timer of a driver's unanswered offer of a pending ride R fires,
\* the driver becomes available and R is re-dispatched: another driver holds
\* its offer, or a re-dispatch of R is under way, or R ends with no drivers.
C5_TimeoutRedispatches ==
  [][\A d \in Drivers, r \in RideIds :
       ( /\ timers # <<>>
         /\ timers' = Tail(timers)
         /\ Head(timers).driverUid = d
         /\ Head(timers).rideId = r
         /\ ~Head(timers).answered
         /\ HoldsOffer(d, r)
         /\ rides[r].status = "pending" )
       => /\ StatusOf(onlineDrivers', d) = "available"
          /\ \/ \E e \in Drivers \ {d} : OfferSent(e, r)
             \/ \E t \in BagToSet(tasks') : Started(t) /\ t.rideId = r
             \/ rides'[r].status = "cancelled_system"]_vars

\* C6: an accept for ride R from a driver with no unanswered, unexpired offer
\* of R (it answered already, or its 30 s ran out) changes no driver pool
\* entry, and an accept of a ride that is already accepted or cancelled changes
\* no ride document.
C6_StaleAcceptIgnored ==
  [][/\ \A t \in BagToSet(tasks') :
          (Started(t) /\ t.pc = "acc_update" /\ ~Unanswered(t.driver, t.rideId))
            => onlineDrivers' = onlineDrivers
     /\ \A t \in BagToSet(tasks) :
          ( /\ t.pc = "acc_update"
            /\ tasks' = Resume(t, [t EXCEPT !.pc = "acc_get"])
            /\ rides[t.rideId].status \in {"accepted", "cancelled_system"} )
            => rides' = rides]_vars

\* C7: when the driver holding the outstanding offer of R accepts, its pool
\* entry becomes on-ride; when the store update succeeds, the ride document is
\* accepted with that driver's id and an acceptance timestamp and the driver is
\* sent ride_confirmed; when the handler completes, ride_accepted is emitted to
\* the rider's socket if the rider is connected.
C7_AcceptAssigns ==
  [][/\ \A t \in BagToSet(tasks') :
          (Started(t) /\ t.pc = "acc_update" /\ HoldsOffer(t.driver, t.rideId))
            => StatusOf(onlineDrivers', t.driver) = "on-ride"
     /\ \A t \in BagToSet(tasks) :
          (t.pc = "acc_update" /\ tasks' = Resume(t, [t EXCEPT !.pc = "acc_get"]))
            => /\ rides'[t.rideId].status = "accepted"
               /\ rides'[t.rideId].driverId = t.driver
               /\ t.driver \in Drivers
               /\ rides'[t.rideId].acceptedAt = "iso"
               /\ rides'[t.rideId].riderId = rides[t.rideId].riderId
               /\ Event(t.socket, "ride_confirmed", t.rideId) \in emitted'
     /\ \A t \in BagToSet(tasks) :
          ( /\ t.pc = "acc_get"
            /\ tasks' = Finish(t)
            /\ Event(NoSocket, "console_error", t.rideId) \notin emitted'
            /\ userSocketMap[rides[t.rideId].riderId] # NoSocket )
            => Event(userSocketMap[rides[t.rideId].riderId], "ride_accepted", t.rideId)
                 \in emitted']_vars

\* C7 witness: the ride is accepted with a driver whose pool entry is on-ride and
\* the rider's socket has just been sent ride_accepted.
C7_Witness ==
  \E r \in RideIds, d \in Drivers :
    /\ rides[r].status = "accepted"
    /\ rides[r].driverId = d
    /\ rides[r].acceptedAt = "iso"
    /\ StatusOf(onlineDrivers, d) = "on-ride"
    /\ userSocketMap[rides[r].riderId] # NoSocket
    /\ Event(userSocketMap[rides[r].riderId], "ride_accepted", r) \in emitted

\* C8: every failed store call is surfaced to the caller (ride_update_failed to
\* the driver's socket, or an HTTP error reply), and after a failed accept the
\* driver's pool entry is available.
C8_FailureSurfaced ==
  [][/\ (\E e \in emitted' : e.event = "console_error")
          => \E e \in emitted' : e.event \in {"ride_update_failed", "http_error"}
     /\ \A t \in BagToSet(tasks) :
          ( /\ t.pc \in {"acc_update", "acc_get"}
            /\ tasks' = Finish(t)
            /\ Event(NoSocket, "console_error", t.rideId) \in emitted'
            /\ HasDriver(onlineDrivers, t.driver) )
            => StatusOf(onlineDrivers', t.driver) = "available"]_vars

\* C9: the timer of an offer the driver has already answered changes no driver
\* status and no ride document when it fires.
C9_AnsweredTimerIsNoOp ==
  [][(timers # <<>> /\ timers' = Tail(timers) /\ Head(timers).answered)
       => (onlineDrivers' = onlineDrivers /\ rides' = rides)]_vars

\* C10: an offer is sent to a driver, and its status set to "pending", only if
\* the driver's pool entry is available at that moment.
C10_OfferRechecksAvailability ==
  [][\A d \in Drivers, r \in RideIds :
       OfferSent(d, r) => StatusOf(onlineDrivers, d) = "available"]_vars

\* C11: when sendRideRequestToDriver cannot reach the chosen candidate (it left
\* the pool) while another driver is available within the radius, the offer goes
\* to another driver in the same step, for a new request and for a re-dispatch
\* after a rejection alike.
C11_SendFailureTriesNext ==
  [][\A t \in BagToSet(tasks) :
       /\ ( /\ RequestAddOk(t)
            /\ ~SendReachable(onlineDrivers, t.nextDriver)
            /\ findNearbyDrivers(onlineDrivers, t.pickup, RadiusKm, t.nextDriver) # <<>> )
          => \E d \in Drivers \ {t.nextDriver} : OfferSent(d, FreshRideId)
       /\ ( /\ RejectUpdate2Ok(t)
            /\ ~SendReachable(onlineDrivers, t.nextDriver)
            /\ findNearbyDrivers(onlineDrivers, t.rideData.pickup, RadiusKm,
                                 t.nextDriver) # <<>> )
          => \E d \in Drivers \ {t.nextDriver} : OfferSent(d, t.rideId)]_vars

\* no pool entry is available within the search radius of the pickup
NoDriverNear(p) ==
  \A i \in 1..Len(onlineDrivers) :
    ~( /\ onlineDrivers[i].status = "available"
       /\ Distance(p, onlineDrivers[i].location) <= RadiusKm )

\* C12: a ride request made while no driver is available within 10 km of the
\* pickup is answered at once with a no-drivers reply; it emits no
\* new_ride_request, creates no ride, starts no timer and no handler, and changes
\* no driver pool entry.
C12_NoDriversReply ==
  [][\A u \in Riders, p \in PickupLocs :
       (NoDriverNear(p) /\ (RequestRideNoDrivers(u, p) \/ RequestRide(u, p)))
         => /\ emitted' # {}
            /\ \A e \in emitted' : e.event \in NoDriverReplies
            /\ onlineDrivers' = onlineDrivers
            /\ rides' = rides
            /\ timers' = timers
            /\ tasks' = tasks
            /\ offered' = offered]_vars

\* C12 witness: a no-drivers reply was just sent while drivers are in the pool,
\* one of them out of range and one of them busy.
C12_Witness ==
  /\ \E e \in emitted : e.event \in NoDriverReplies
  /\ \A p \in PickupLocs : NoDriverNear(p)
  /\ \E i \in 1..Len(onlineDrivers) :
       /\ onlineDrivers[i].status = "available"
       /\ \A p \in PickupLocs : Distance(p, onlineDrivers[i].location) > RadiusKm
  /\ \E i \in 1..Len(onlineDrivers) : onlineDrivers[i].status # "available"

\* no pool entry other than driverUid is available within the radius of p
NoOtherDriverNear(p, driverUid) ==
  \A i \in 1..Len(onlineDrivers) :
    ~( /\ onlineDrivers[i].uid # driverUid
       /\ onlineDrivers[i].status = "available"
       /\ Distance(p, onlineDrivers[i].location) <= RadiusKm )

\* C13: when the driver_rejected handler of ride R searches again and no other
\* driver is available within the radius, it offers R to nobody and goes on to
\* cancel; when that update succeeds the ride document is cancelled_system,
\* no_driver_found is emitted to the rider's socket if the rider is connected,
\* and the step emits no new_ride_request and starts no timer.
C13_RejectWithoutCandidates ==
  [][\A t \in BagToSet(tasks) :
       /\ ( /\ RejectUpdate1Ok(t)
            /\ t.rideData.defined
            /\ NoOtherDriverNear(t.rideData.pickup, t.driver) )
          => /\ tasks' = Resume(t, [t EXCEPT !.pc = "rej_update3"])
             /\ timers' = timers
             /\ onlineDrivers' = onlineDrivers
             /\ emitted' = {}
       /\ RejectUpdate3Ok(t)
          => /\ rides'[t.rideId].status = "cancelled_system"
             /\ userSocketMap[rides[t.rideId].riderId] # NoSocket
                  => Event(userSocketMap[rides[t.rideId].riderId], "no_driver_found",
                           t.rideId) \in emitted'
             /\ \A e \in emitted' : e.event = "no_driver_found"
             /\ timers' = timers
             /\ onlineDrivers' = onlineDrivers
             /\ tasks' = Finish(t)]_vars

\* C13 witness: the ride is cancelled_system, the rider's socket has just been
\* sent no_driver_found, and no driver holds an offer.
C13_Witness ==
  \E r \in RideIds :
    /\ rides[r].status = "cancelled_system"
    /\ rides[r].rejectedBy # NoUid
    /\ userSocketMap[rides[r].riderId] # NoSocket
    /\ Event(userSocketMap[rides[r].riderId], "no_driver_found", r) \in emitted
    /\ \A d \in Drivers : StatusOf(onlineDrivers, d) # "pending"

\* C14: when the socket of a driver holding the outstanding offer of a pending
\* ride R disconnects, the disconnect step re-dispatches R: it offers R to
\* another driver, or starts a handler for R, or ends R as cancelled_system.
C14_DisconnectRedispatches ==
  [][\A s \in DriverSockets, r \in RideIds :
       ( /\ Disconnect(s)
         /\ HoldsOffer(sockets[s].userId, r)
         /\ rides[r].status = "pending" )
       => \/ \E e \in Drivers \ {sockets[s].userId} : OfferSent(e, r)
          \/ \E t \in BagToSet(tasks') : Started(t) /\ t.rideId = r
          \/ rides'[r].status = "cancelled_system"]_vars

\* C15: with drivers 1, 2, 3 at increasing distance within the radius, after
\* driver 1 rejected ride R and R was offered to driver 2, the step at which
\* driver 2's unanswered offer times out offers R to driver 3 (or starts the
\* re-dispatch of R), so that driver 3 can accept it.
C15_SequentialRedispatch ==
  [][\A r \in RideIds :
       ( /\ TimerFires
         /\ Head(timers).driverUid = 2
         /\ Head(timers).rideId = r
         /\ ~Head(timers).answered
         /\ HoldsOffer(2, r)
         /\ rides[r].status = "pending"
         /\ rides[r].rejectedBy = 1
         /\ StatusOf(onlineDrivers, 1) = "available"
         /\ StatusOf(onlineDrivers, 3) = "available"
         /\ Distance(rides[r].pickup, GetDriver(onlineDrivers, 3).location) <= RadiusKm )
       => \/ OfferSent(3, r)
          \/ \E t \in BagToSet(tasks') : Started(t) /\ t.rideId = r]_vars

\* the driver is in the result of the search around p in the next state
FoundAfter(driverUid, p) ==
  \E i \in 1..Len(findNearbyDrivers(onlineDrivers', p, RadiusKm, NoUid)) :
    findNearbyDrivers(onlineDrivers', p, RadiusKm, NoUid)[i].uid = driverUid

\* the driver's pool entry is within the radius of p
InRange(driverUid, p) ==
  /\ HasDriver(onlineDrivers, driverUid)
  /\ Distance(p, GetDriver(onlineDrivers, driverUid).location) <= RadiusKm

\* C16: a driver in range that rejects a ride, or whose offer times out, is
\* returned by the next search around any pickup; and a request for a new ride
\* chooses a driver that was offered an earlier ride and is available again when
\* it is the only candidate, and offers it the new ride.
C16_ExclusionIsPerRide ==
  [][/\ \A s \in DriverSockets, r \in RideIds, p \in PickupLocs :
          (DriverRejected(s, r) /\ InRange(sockets[s].driverUID, p))
            => FoundAfter(sockets[s].driverUID, p)
     /\ \A d \in Drivers, p \in PickupLocs :
          ( /\ TimerFires
            /\ Head(timers).driverUid = d
            /\ StatusOf(onlineDrivers, d) = "pending"
            /\ InRange(d, p) )
            => FoundAfter(d, p)
     /\ \A u \in Riders, p \in PickupLocs, d \in Drivers :
          ( /\ RequestRide(u, p)
            /\ offered[d] # {}
            /\ StatusOf(onlineDrivers, d) = "available"
            /\ InRange(d, p)
            /\ NoOtherDriverNear(p, d) )
            => \E t \in BagToSet(tasks') : Started(t) /\ t.nextDriver = d
     /\ \A t \in BagToSet(tasks) :
          ( /\ RequestAddOk(t)
            /\ offered[t.nextDriver] # {}
            /\ StatusOf(onlineDrivers, t.nextDriver) = "available" )
            => /\ OfferSent(t.nextDriver, FreshRideId)
               /\ FreshRideId \notin offered[t.nextDriver]
               /\ StatusOf(onlineDrivers', t.nextDriver) = "pending"]_vars

\* C16 witness: a driver recorded as the rejector of one ride holds the
\* outstanding offer of another ride.
C16_Witness ==
  \E d \in Drivers, r \in RideIds, q \in RideIds :
    /\ r # q
    /\ rides[r].rejectedBy = d
    /\ HoldsOffer(d, q)
    /\ rides[q].status = "pending"

\* the radii searched with: none, one step, the dispatch radius
SearchRadii == {0, KmPerUnit, RadiusKm}

\* the drivers a search around p with radius r excluding x has to return
Expected(p, r, x) ==
  {d \in Drivers :
     /\ d # x
     /\ HasDriver(onlineDrivers, d)
     /\ GetDriver(onlineDrivers, d).status = "available"
     /\ Distance(p, GetDriver(onlineDrivers, d).location) <= r}

\* C17: for every pool, origin, radius and excluded driver (or none),
\* findNearbyDrivers returns exactly the available, not excluded drivers within
\* the radius, each once, as their pool entries, in order of non-decreasing
\* distance.
C17_FindNearbyExact ==
  \A p \in Locs, r \in SearchRadii, x \in Drivers \cup {NoUid} :
    LET res == findNearbyDrivers(onlineDrivers, p, r, x) IN
    /\ {res[i].uid : i \in 1..Len(res)} = Expected(p, r, x)
    /\ Len(res) = Cardinality(Expected(p, r, x))
    /\ \A i \in 1..Len(res) : res[i] = GetDriver(onlineDrivers, res[i].uid)
    /\ \A i \in 1..(Len(res) - 1) :
         Distance(p, res[i].location) <= Distance(p, res[i + 1].location)

\* C17 witness: the pool holds an available driver in range behind a farther
\* available driver in range, a driver out of range and a busy driver.
C17_Witness ==
  \E p \in PickupLocs :
    /\ \E i, j \in 1..Len(onlineDrivers) :
         /\ i < j
         /\ onlineDrivers[i].status = "available"
         /\ onlineDrivers[j].status = "available"
         /\ Distance(p, onlineDrivers[i].location) <= RadiusKm
         /\ Distance(p, onlineDrivers[j].location) < Distance(p, onlineDrivers[i].location)
    /\ \E i \in 1..Len(onlineDrivers) :
         onlineDrivers[i].status \in {"pending", "on-ride"}

\* C18: in every search result, candidates at equal distance from the origin
\* come in order of driver id.
C18_TiesById ==
  \A p \in Locs :
    LET res == findNearbyDrivers(onlineDrivers, p, RadiusKm, NoUid) IN
    \A i \in 1..(Len(res) - 1) :
      Distance(p, res[i].location) = Distance(p, res[i + 1].location)
        => res[i].uid < res[i + 1].uid

\* the driver is in the result of the search around p with radius r in the
\* next state
FoundAfterWithin(driverUid, p, r) ==
  \E i \in 1..Len(findNearbyDrivers(onlineDrivers', p, r, NoUid)) :
    findNearbyDrivers(onlineDrivers', p, r, NoUid)[i].uid = driverUid

\* C19: right after driver_online at loc, the search around loc with any radius
\* returns the driver; right after the driver's driver_offline or disconnect no
\* search returns it; a driver absent from the pool is never returned by a
\* search, and it enters the pool again only by a driver_online step of that
\* driver.
C19_PresenceRoundTrip ==
  [][/\ \A s \in DriverSockets, loc \in Locs, r \in SearchRadii :
          DriverOnline(s, Owner(s), loc) => FoundAfterWithin(Owner(s), loc, r)
     /\ \A s \in DriverSockets, p \in Locs, r \in SearchRadii :
          ((DriverOffline(s) \/ Disconnect(s)) /\ sockets[s].driverUID # NoUid)
            => ~FoundAfterWithin(sockets[s].driverUID, p, r)
     /\ \A d \in Drivers :
          (~HasDriver(onlineDrivers, d) /\ HasDriver(onlineDrivers', d))
            => \E s \in DriverSockets, loc \in Locs : DriverOnline(s, d, loc)
     /\ \A d \in Drivers, p \in Locs, r \in SearchRadii :
          ~HasDriver(onlineDrivers', d) => ~FoundAfterWithin(d, p, r)]_vars

\* C19 witness: a driver that announced itself on a socket is out of the pool,
\* once with the socket still open (offline) and once with it closed
\* (disconnected), while another driver is in the pool.
C19_Witness ==
  /\ \E s \in DriverSockets :
       /\ sockets[s].open
       /\ sockets[s].driverUID # NoUid
       /\ ~HasDriver(onlineDrivers, sockets[s].driverUID)
  /\ \E s \in DriverSockets :
       /\ ~sockets[s].open
       /\ sockets[s].driverUID # NoUid
       /\ ~HasDriver(onlineDrivers, sockets[s].driverUID)
  /\ onlineDrivers # <<>>

\* the entries of the pool that belong to the driver
EntriesOf(pool, driverUid) == {i \in 1..Len(pool) : pool[i].uid = driverUid}

\* C20: after every step the pool holds at most one entry per driver; a
\* driver_online step leaves exactly one entry of the driver, holding the
\* announcing socket, the announced location and status "available", and leaves
\* every other driver's entry as it was; the same announcement again would not
\* change the pool.
C20_RegistrationOverwrites ==
  [][/\ \A d \in Drivers : Cardinality(EntriesOf(onlineDrivers', d)) <= 1
     /\ \A s \in DriverSockets, loc \in Locs :
          DriverOnline(s, Owner(s), loc)
            => /\ Cardinality(EntriesOf(onlineDrivers', Owner(s))) = 1
               /\ \A i \in EntriesOf(onlineDrivers', Owner(s)) :
                    onlineDrivers'[i] = [uid |-> Owner(s), socketId |-> s,
                                         location |-> loc, status |-> "available"]
               /\ \A e \in Drivers \ {Owner(s)} :
                    /\ HasDriver(onlineDrivers', e) = HasDriver(onlineDrivers, e)
                    /\ HasDriver(onlineDrivers, e)
                         => GetDriver(onlineDrivers', e) = GetDriver(onlineDrivers, e)
               /\ PutDriver(onlineDrivers', DriverEntry(Owner(s), s, loc, "available"))
                    = onlineDrivers']_vars

\* C20 witness: a driver recorded as the accepted driver of a ride announced
\* itself again: its entry, still the first of several, is available.
C20_Witness ==
  \E r \in RideIds, d \in Drivers :
    /\ rides[r].status = "accepted"
    /\ rides[r].driverId = d
    /\ Len(onlineDrivers) >= 2
    /\ onlineDrivers[1].uid = d
    /\ onlineDrivers[1].status = "available"

\* C21: presence unregistration is guarded by handle identity.  The disconnect
\* of a socket leaves the mapping of every user whose mapping points to another
\* socket as it was, so a lookup still returns the newer socket; and a mapping
\* disappears only in the disconnect of the socket it points to.
C21_UnregisterGuarded ==
  [][/\ \A s \in Sockets, u \in Users :
          (Disconnect(s) /\ userSocketMap[u] # s)
            => findSocketIdForUser(userSocketMap', u) = userSocketMap[u]
     /\ \A u \in Users :
          (userSocketMap[u] # NoSocket /\ userSocketMap'[u] = NoSocket)
            => Disconnect(userSocketMap[u])]_vars

\* C21 witness: a socket that announced a user is closed while the user's
\* mapping points to another, open socket that announced the same user.
C21_Witness ==
  \E s1, s2 \in Sockets, u \in Users :
    /\ s1 # s2
    /\ ~sockets[s1].open /\ sockets[s1].userId = u
    /\ sockets[s2].open /\ sockets[s2].userId = u
    /\ userSocketMap[u] = s2

\* this step started a video-call session
SessionStarted == \E e \in emitted' : e.event = "initiate_video_call"

\* C22: a session between responder B and the rider X named in B's accept is
\* established only if B's entry holds a pending invite sent by X and X is in
\* the looking pool.
C22_AcceptOnlyMatchingInvite ==
  [][\A s \in RiderSockets, x \in Riders, now \in Times :
       (AcceptCommunityConnection(s, x, Owner(s), Profile(Owner(s)), now) /\ SessionStarted)
         => /\ RequestOf(lookingRiders, Owner(s)).uid = x
            /\ HasRider(lookingRiders, x)]_vars

\* the open socket of a rider's client
SocketOf(uid) == CHOOSE s \in RiderSockets : Owner(s) = uid

\* C23: with A and B in the looking pool and A's invite pending at B, B's
\* accept of A sends both a session event with one and the same room id and
\* the other rider's id and details, and removes both from the pool; and an
\* invite to a rider that is not in the pool is answered to its sender with
\* community_request_failed and changes nothing.
C23_AcceptPairsAndRemoves ==
  [][/\ \A a, b \in Riders, now \in Times :
          ( /\ a # b
            /\ HasRider(lookingRiders, a) /\ HasRider(lookingRiders, b)
            /\ RequestOf(lookingRiders, b) = Request(a, Profile(a))
            /\ AcceptCommunityConnection(SocketOf(b), a, b, Profile(b), now) )
            => /\ \E room \in {e.roomId : e \in emitted'} :
                    /\ room # NoRoom
                    /\ PeerEvent(SocketOf(a), "initiate_video_call", b, Profile(b), room)
                         \in emitted'
                    /\ PeerEvent(SocketOf(b), "initiate_video_call", a, Profile(a), room)
                         \in emitted'
               /\ sockets[SocketOf(a)].open /\ sockets[SocketOf(b)].open
               /\ ~HasRider(lookingRiders', a) /\ ~HasRider(lookingRiders', b)
     /\ \A c, t \in Riders :
          ( /\ ~HasRider(lookingRiders, t)
            /\ RequestCommunityConnection(SocketOf(c), c, t, Profile(c)) )
            => /\ emitted' = {FailedEvent(SocketOf(c), "community_request_failed", t,
                                          "User is no longer available.")}
               /\ lookingRiders' = lookingRiders]_vars

\* C23 witness: two riders have just been sent the session events of one room
\* and are out of the pool, while a third rider is still looking.
C23_Witness ==
  \E e1, e2 \in emitted :
    /\ e1.event = "initiate_video_call" /\ e2.event = "initiate_video_call"
    /\ e1.to # e2.to /\ e1.roomId = e2.roomId
    /\ e1.uid = Owner(e2.to) /\ e2.uid = Owner(e1.to)
    /\ ~HasRider(lookingRiders, e1.uid) /\ ~HasRider(lookingRiders, e2.uid)
    /\ \E c \in Riders : HasRider(lookingRiders, c)

\* the pool entry of uid but for its pending request (absent: no entry)
EntryLess(pool, uid) ==
  IF HasRider(pool, uid)
    THEN [GetRider(pool, uid) EXCEPT !.pendingRequestFrom = NoRequest]
    ELSE RiderEntry(NoUid, NoSocket, 0, 0)

\* C24: an invite to a rider in the looking pool sets that entry's pending
\* request to the sender's id and details, changes nothing else in the pool
\* and notifies the target; an invite to a rider that is not in the pool tells
\* the sender so and changes no entry; and a pending request is recorded by no
\* other step.
C24_InviteRecordedIfPresent ==
  [][/\ \A s \in RiderSockets, t \in Riders :
          RequestCommunityConnection(s, Owner(s), t, Profile(Owner(s)))
            => IF HasRider(lookingRiders, t)
                 THEN /\ RequestOf(lookingRiders', t) = Request(Owner(s), Profile(Owner(s)))
                      /\ \A u \in Riders :
                           /\ EntryLess(lookingRiders', u) = EntryLess(lookingRiders, u)
                           /\ u # t => RequestOf(lookingRiders', u) = RequestOf(lookingRiders, u)
                      /\ emitted' = {PeerEvent(SocketOf(t), "community_connection_requested",
                                               Owner(s), Profile(Owner(s)), NoRoom)}
                 ELSE /\ lookingRiders' = lookingRiders
                      /\ emitted' = {FailedEvent(s, "community_request_failed", t,
                                                 "User is no longer available.")}
     /\ \A t \in Riders :
          ( /\ RequestOf(lookingRiders', t) # NoRequest
            /\ RequestOf(lookingRiders', t) # RequestOf(lookingRiders, t) )
            => /\ HasRider(lookingRiders, t)
               /\ \E s \in RiderSockets :
                    RequestCommunityConnection(s, Owner(s), t, Profile(Owner(s)))]_vars

\* C24 witness: a rider has just been notified of the invite of another rider,
\* which its entry records, while a third rider's entry holds a request too.
C24_Witness ==
  \E e \in emitted, t, u \in Riders :
    /\ e.event = "community_connection_requested"
    /\ e.to = SocketOf(t) /\ e.uid # t /\ u # t
    /\ RequestOf(lookingRiders, t) = Request(e.uid, e.details)
    /\ RequestOf(lookingRiders, u) # NoRequest

\* C25: with A and B in the looking pool and A's invite pending at B, B's
\* reject of A clears B's pending request, tells A that B rejected, and leaves
\* every entry in the pool with its socket, location and destination and every
\* other pending request as they were.
C25_RejectClearsAndNotifies ==
  [][\A a, b \in Riders :
       ( /\ HasRider(lookingRiders, a) /\ HasRider(lookingRiders, b)
         /\ RequestOf(lookingRiders, b).uid = a
         /\ RejectCommunityConnection(SocketOf(b), a, b) )
         => /\ RequestOf(lookingRiders', b) = NoRequest
            /\ emitted' = {PeerEvent(SocketOf(a), "community_connection_rejected",
                                     b, NoDetails, NoRoom)}
            /\ HasRider(lookingRiders', a) /\ HasRider(lookingRiders', b)
            /\ \A u \in Riders :
                 /\ EntryLess(lookingRiders', u) = EntryLess(lookingRiders, u)
                 /\ u # b => RequestOf(lookingRiders', u) = RequestOf(lookingRiders, u)]_vars

\* C25 witness: a rider has just been told that another rider rejected, both
\* are in the pool, the rejecting rider holds no request and the rejected one
\* holds one.
C25_Witness ==
  \E e \in emitted, a \in Riders :
    /\ e.event = "community_connection_rejected"
    /\ e.to = SocketOf(a) /\ e.uid # a
    /\ HasRider(lookingRiders, a) /\ HasRider(lookingRiders, e.uid)
    /\ RequestOf(lookingRiders, e.uid) = NoRequest
    /\ RequestOf(lookingRiders, a) # NoRequest

\* the responder's entry holds a pending invite sent by x, and x is in the pool
HoldsInvite(pool, myUid, x) ==
  /\ RequestOf(pool, myUid).uid = x
  /\ HasRider(pool, x)

\* C26: an accept or a reject naming an invite that the responder does not
\* hold is answered to the responder with a failure event, changes no pool
\* entry, and sends the named rider neither community_connection_accepted nor
\* community_connection_rejected.
C26_StaleResponseIgnored ==
  [][\A s \in RiderSockets, x \in Riders :
       ( /\ ~HoldsInvite(lookingRiders, Owner(s), x)
         /\ \/ \E now \in Times :
                 AcceptCommunityConnection(s, x, Owner(s), Profile(Owner(s)), now)
            \/ RejectCommunityConnection(s, x, Owner(s)) )
         => /\ \E e \in emitted' : e.to = s /\ e.event = "community_video_failed"
            /\ lookingRiders' = lookingRiders
            /\ \A e \in emitted' :
                 e.event \notin {"community_connection_accepted",
                                 "community_connection_rejected"}]_vars

\* C27: when the socket on which a rider announced itself disconnects while
\* pool entries hold that rider's invite, no entry holds it afterwards and
\* every rider whose entry held it is sent community_request_failed, whether
\* or not the disconnecting rider is in the looking pool.
C27_DisconnectClearsSentInvites ==
  [][\A s \in RiderSockets :
       ( /\ sockets[s].userId # NoUid
         /\ RequestedBy(lookingRiders, sockets[s].userId) # {}
         /\ Disconnect(s) )
         => /\ RequestedBy(lookingRiders', sockets[s].userId) = {}
            /\ \A o \in RequestedBy(lookingRiders, sockets[s].userId) \ {sockets[s].userId} :
                 FailedEvent(SocketOf(o), "community_request_failed",
                             sockets[s].userId, "User disconnected.") \in emitted']_vars

\* C28: a rider has at most one outstanding sent invite: at most one
\* looking-pool entry holds a pending request from any one rider.
C28_OneSentInvite ==
  \A r \in Riders : Cardinality(RequestedBy(lookingRiders, r)) <= 1

\* C29: the last invite wins.  When C invites B while B's entry holds a pending
\* invite from a third rider A, the entry's pending request becomes C's id and
\* details, and B's accept of A establishes no session any more.
C29_LastInviteWins ==
  [][\A a, b, c \in Riders :
       ( /\ a # b /\ a # c /\ b # c
         /\ RequestOf(lookingRiders, b).uid = a
         /\ RequestCommunityConnection(SocketOf(c), c, b, Profile(c)) )
         => /\ RequestOf(lookingRiders', b) = Request(c, Profile(c))
            /\ ~CanAccept(lookingRiders', a, b)]_vars

\* what the disconnect handler hands to notifyRider for the riders that held
\* an invite of uid
DisconnectNotice(to, uid) ==
  FailedEvent(to, "community_request_failed", uid, "User disconnected.")

\* C30: the notifier emits the event to a user's socket and returns true
\* exactly when the presence map holds a socket for that user, and otherwise
\* emits nothing and returns false; where the disconnect handler notifies the
\* riders that held the disconnected rider's invite, the events emitted are
\* those of the riders with a mapping, and the mappings of all other users, the
\* driver pool and the notified riders' entries stay as they were.
C30_NotifierReadsRegistry ==
  [][/\ \A u \in Users :
          LET n == notifyUser(userSocketMap, u, DisconnectNotice(NoSocket, u)) IN
          IF userSocketMap[u] # NoSocket
            THEN n.returns /\ n.emits = {DisconnectNotice(userSocketMap[u], u)}
            ELSE ~n.returns /\ n.emits = {}
     /\ \A s \in RiderSockets :
          (Disconnect(s) /\ RiderCleanup(s))
            => LET uid == sockets[s].userId
                   told == RequestedBy(lookingRiders, uid)
               IN /\ emitted' = {DisconnectNotice(userSocketMap'[o], uid) :
                                   o \in {v \in told : userSocketMap'[v] # NoSocket}}
                  /\ \A o \in Users \ {uid} : userSocketMap'[o] = userSocketMap[o]
                  /\ onlineDrivers' = onlineDrivers
                  /\ \A o \in told \ {uid} :
                       /\ HasRider(lookingRiders', o)
                       /\ EntryLess(lookingRiders', o) = EntryLess(lookingRiders, o)]_vars

\* C30 witness: a rider in the pool has just been told on its open socket that
\* a rider disconnected, and that rider has no mapping any more.
C30_Witness ==
  \E e \in emitted :
    /\ e.reason = "User disconnected."
    /\ sockets[e.to].open /\ userSocketMap[Owner(e.to)] = e.to
    /\ HasRider(lookingRiders, Owner(e.to))
    /\ userSocketMap[e.uid] = NoSocket
    /\ ~notifyUser(userSocketMap, e.uid, e).returns

\* the ride has been offered to a driver and is still pending
OfferedAndPending(r) ==
  /\ rides[r].status = "pending"
  /\ \E d \in Drivers : r \in offered[d]

\* the ride is accepted or has failed for good
Resolved(r) == rides[r].status \in {"accepted", "cancelled_system"}

\* C31: every ride that has been offered to a driver is eventually accepted or
\* cancelled by the system, when timers fire and store calls complete.
C31_OfferedRideResolves ==
  \A r \in RideIds : OfferedAndPending(r) ~> Resolved(r)

\* onlineDrivers[uid], undefined without an entry
EntryOf(pool, uid) ==
  IF HasDriver(pool, uid) THEN GetDriver(pool, uid)
  ELSE DriverEntry(NoUid, NoSocket, 0, "undefined")

\* the step changes no driver pool entry but those of driverUid and of
\* offeredUid, and neither the looking-rider pool nor the presence map
Scoped(driverUid, offeredUid) ==
  /\ \A d \in Drivers \ {driverUid, offeredUid} :
       EntryOf(onlineDrivers', d) = EntryOf(onlineDrivers, d)
  /\ lookingRiders' = lookingRiders
  /\ userSocketMap' = userSocketMap

\* C32: the handling of an accept, of a reject, of an offer timeout or of a
\* store failure for driver D changes no driver pool entry other than D's and
\* that of the one driver the ride is offered to next, and leaves the
\* looking-rider pool and the presence map as they were.
C32_ScopedToOneRide ==
  [][/\ \A s \in DriverSockets, r \in RideIds :
          (DriverAccepted(s, r) \/ DriverRejected(s, r))
            => Scoped(sockets[s].driverUID, NoUid)
     /\ \A t \in Running :
          ( \/ AcceptUpdateOk(t) \/ AcceptGetOk(t) \/ AcceptFail(t)
            \/ RejectGetOk(t) \/ RejectUpdate1Ok(t) \/ RejectUpdate3Ok(t)
            \/ RejectFail(t) )
            => Scoped(sockets[t.socket].driverUID, NoUid)
     /\ \A t \in Running :
          RejectUpdate2Ok(t) => Scoped(sockets[t.socket].driverUID, t.nextDriver)
     /\ TimerFires => Scoped(Head(timers).driverUid, NoUid)]_vars

\* C32 witness: a driver's offer has timed out or been answered (its entry is
\* available again) while another driver holds an offer, a rider is looking
\* for a match and the rider of the ride is connected.
C32_Witness ==
  \E d1, d2 \in Drivers :
    /\ d1 # d2
    /\ offered[d1] # {} /\ StatusOf(onlineDrivers, d1) = "available"
    /\ StatusOf(onlineDrivers, d2) = "pending"
    /\ lookingRiders # <<>>
    /\ \E u \in Requesters : userSocketMap[u] # NoSocket

\* a lifecycle call by t's caller ends with an error reply
ErrorReply(t) ==
  \/ MarkArrivedFail(t) \/ StartRideFail(t) \/ CompleteRideFail(t)
  \/ (MarkArrivedGetOk(t) /\ Validate(rides[t.rideId], t.driver, "accepted") # "ok")
  \/ (StartRideGetOk(t) /\ Validate(rides[t.rideId], t.driver, "driver_arrived") # "ok")
  \/ (CompleteRideGetOk(t) /\ Validate(rides[t.rideId], t.driver, "ongoing") # "ok")

\* the step stores status `to` in t's ride, which had status `from` and t's
\* caller as its driver
Advances(t, from, to) ==
  /\ rides[t.rideId].status = from
  /\ rides[t.rideId].driverId = t.driver
  /\ rides' = [rides EXCEPT ![t.rideId].status = to]

\* C33: markArrived changes a ride only from accepted to driver_arrived,
\* startRide only from driver_arrived to ongoing, completeRide only from
\* ongoing to completed, each for the ride's recorded driver only; and a call
\* that ends with an error leaves the ride documents and the driver pool as
\* they were.
C33_LifecycleOrdered ==
  [][\A t \in Running :
       /\ MarkArrivedUpdateOk(t) => Advances(t, "accepted", "driver_arrived")
       /\ StartRideUpdateOk(t) => Advances(t, "driver_arrived", "ongoing")
       /\ CompleteRideUpdateOk(t) => Advances(t, "ongoing", "completed")
       /\ ErrorReply(t) => (rides' = rides /\ onlineDrivers' = onlineDrivers)]_vars

\* C34: terminal ride statuses are absorbing: no operation that begins once a
\* ride is completed or cancelled changes the ride's status or its driver.
C34_TerminalAbsorbing ==
  [][\A r \in RideIds :
       rides[r].status \in TerminalStatuses
         => /\ rides'[r].status = rides[r].status
            /\ rides'[r].driverId = rides[r].driverId]_vars

\* the ride has a driver and is neither completed nor cancelled
InProgress(r) == rides[r].status \in {"accepted", "driver_arrived", "ongoing"}

\* C35: a driver stays ineligible for offers from the accept until the ride is
\* completed or cancelled: while the store records a ride as accepted,
\* driver_arrived or ongoing with driver D, findNearbyDrivers does not return D.
C35_OnRideDriverIneligible ==
  \A r \in RideIds, p \in PickupLocs :
    InProgress(r) /\ rides[r].driverId # NoUid
      => LET found == findNearbyDrivers(onlineDrivers, p, RadiusKm, NoUid)
         IN  \A i \in 1..Len(found) : found[i].uid # rides[r].driverId

\* C36: when the driver_accepted handler for driver D and ride R finishes,
\* through its last statement or through its catch block, D's pool status is
\* on-ride exactly if the store records R as accepted with driver D.
C36_PoolAgreesWithStore ==
  [][\A t \in Running :
       AcceptGetOk(t) \/ AcceptFail(t)
         => (StatusOf(onlineDrivers', t.driver) = "on-ride"
               <=> /\ rides'[t.rideId].status = "accepted"
                   /\ rides'[t.rideId].driverId = t.driver)]_vars

\* an entry of the presence map, the driver pool or the looking pool holds
\* socket id s
RefersTo(map, drivers, riders, s) ==
  \/ \E u \in Users : map[u] = s
  \/ \E i \in 1..Len(drivers) : drivers[i].socketId = s
  \/ \E i \in 1..Len(riders) : riders[i].socketId = s

\* C37: after a socket disconnects, no entry of the presence map, the driver
\* pool or the looking pool refers to that socket's id, whatever events
\* (also with different uids) the socket sent before.
C37_NoDanglingEntries ==
  [][\A s \in Sockets :
       Disconnect(s) => ~RefersTo(userSocketMap', onlineDrivers', lookingRiders', s)]_vars

\* every pool entry registered by a socket other than s is still in the pool,
\* owned by the same socket, after the step
OthersKept(s) ==
  /\ \A i \in 1..Len(onlineDrivers) :
       onlineDrivers[i].socketId # s
         => /\ HasDriver(onlineDrivers', onlineDrivers[i].uid)
            /\ GetDriver(onlineDrivers', onlineDrivers[i].uid).socketId
                 = onlineDrivers[i].socketId
  /\ \A i \in 1..Len(lookingRiders) :
       lookingRiders[i].socketId # s
         => /\ HasRider(lookingRiders', lookingRiders[i].uid)
            /\ GetRider(lookingRiders', lookingRiders[i].uid).socketId
                 = lookingRiders[i].socketId

\* C38: a pool entry registered by a newer socket of a user is not evicted by
\* an older socket of the same user: a disconnect, driver_offline or
\* rider_stopped_looking on a socket leaves every entry owned by another
\* socket in the pool.
C38_OlderSocketKeepsNewerEntry ==
  [][\A s \in Sockets :
       Disconnect(s) \/ DriverOffline(s) \/ RiderStoppedLooking(s) => OthersKept(s)]_vars

\* C39: socket events affect only the sender's own identity: an
\* update_location, invite, accept or reject received on socket S changes a
\* driver's location, records an invite sender or removes riders from the
\* pool only when the user id the event is sent under is the one S registered.
C39_OwnIdentityOnly ==
  [][\A s \in Sockets, uid \in Users :
       \/ \E loc \in Locs : UpdateLocation(s, uid, loc)
       \/ \E toUid \in Users : RequestCommunityConnection(s, uid, toUid, Profile(uid))
       \/ \E acceptedUid \in Users, now \in Times :
            AcceptCommunityConnection(s, acceptedUid, uid, Profile(uid), now)
       \/ \E rejectedUid \in Users : RejectCommunityConnection(s, rejectedUid, uid)
       => \/ uid = sockets[s].userId
          \/ /\ onlineDrivers' = onlineDrivers
             /\ lookingRiders' = lookingRiders]_vars

\* C40: every established session pairs two distinct riders: when an accept
\* starts a session (and removes riders from the looking pool), the rider it
\* names as inviter, and the sender of the invite it answers, is not the
\* responder itself.
C40_SessionPairsDistinctRiders ==
  [][\A s \in RiderSockets, x \in Riders, now \in Times :
       (AcceptCommunityConnection(s, x, Owner(s), Profile(Owner(s)), now) /\ SessionStarted)
         => /\ x # Owner(s)
            /\ RequestOf(lookingRiders, Owner(s)).uid # Owner(s)]_vars

====
